---------------------------- MODULE Spec2Model ----------------------------
(***************************************************************************)
(* Model of the QR detection service (services/qrDetection.ts), of the     *)
(* part of the scan view (components/ScanView.tsx) that drives it, of the  *)
(* field extractors of the upload view and the scan view, and of the merge *)
(* in saveToDatabase (components/UploadView.tsx), of the camera handling   *)
(* of the scan view, of the batch upload of the upload view and of the     *)
(* contrast transform of the detection service.                            *)
(*                                                                         *)
(* Strings are sequences of one-character strings, so that startsWith,     *)
(* includes, split and the regular expressions are computed on characters. *)
(***************************************************************************)
EXTENDS Integers, Sequences, FiniteSets, TLC

VARIABLES
  jsQR,               \* window.jsQR is loaded
  ZXing,              \* window.ZXing is loaded
  isInitialized,      \* QRDetectionService.isInitialized
  isScanning,         \* ScanView state
  scanMode,           \* ScanView state: "qr", "nfc", "text" or "null"
  isProcessing,       \* ScanView state
  pc,                 \* where the capture / processQRCodeFrontend / detectQRCodes run stands
  idx,                \* loop index i of the Tier 1 loop (1-based)
  preprocessedImages, \* the array preprocessImage returned
  results,            \* the results array of detectQRCodes
  rpc,                \* where the pending detectWithGoQRAPI call stands
  net,                \* whether the pending collaborator answers: "responds" or "silent"
  lastRemote,         \* what the last finished detectWithGoQRAPI call met and returned
  detectOutcome,      \* "none", "returned" or "rejected": how detectQRCodes ended
  detectResult,       \* the array detectQRCodes resolved with
  urlsToFetch,        \* the URLs still to enrich, in order
  urlDetails,         \* the urlDetails object of processQRCodeFrontend
  epc,                \* where the pending fetchURLDetails call stands
  frontResult,        \* what processQRCodeFrontend / processQRCodeBackend returned
  calls,              \* history: the collaborator calls of this run, in order
  prepInvoked,        \* history: preprocessImage was called in this run
  stopRequested,      \* history: stopScan was called while this run was in flight
  payload,            \* the string handed to parseQRContent
  parsed,             \* the record parseQRContent returned
  text,               \* the recognized text handed to a field extractor
  info,               \* the info record the extractor returned
  extractedBy,        \* "none", "upload" or "scan": the extractor that ran
  result,             \* the result object handed to saveToDatabase
  saved,              \* the record saveToDatabase handed to saveFileUploadData
  streamRef,          \* ScanView streamRef.current: a stream, or 0 for null
  live,               \* the streams whose tracks are running
  starting,           \* the startCamera calls waiting for getUserMedia
  timers,             \* the pending 100 ms timers of the Reset button
  effectDeps,         \* the [isScanning, scanMode] the camera effect last ran with
  uploadedFiles,      \* UploadView state
  isUploading,        \* UploadView state
  bpc,                \* where the uploadAllFilesBatch run stands
  pendingFiles,       \* the pendingFiles of the run: the ids of the files it sends
  qrResults,          \* the file names detectQRCodesInFiles found codes for
  atStart,            \* history: uploadedFiles when the run started
  saves,              \* history: the files saveToDatabase was called for in the run
  batchOutcome,       \* history: how the last run ended
  frame,              \* the ImageData handed to increaseContrast
  enhanced            \* the ImageData increaseContrast returned

vars == <<jsQR, ZXing, isInitialized, isScanning, scanMode, isProcessing, pc, idx,
          preprocessedImages, results, rpc, net, lastRemote, detectOutcome,
          detectResult, urlsToFetch, urlDetails, epc, frontResult, calls,
          prepInvoked, stopRequested, payload, parsed, text, info, extractedBy,
          result, saved, streamRef, live, starting, timers, effectDeps,
          uploadedFiles, isUploading, bpc, pendingFiles, qrResults, atStart, saves,
          batchOutcome, frame, enhanced>>

runVars == <<jsQR, ZXing, isInitialized, isScanning, scanMode, isProcessing, pc, idx,
             preprocessedImages, results, rpc, net, lastRemote, detectOutcome,
             detectResult, urlsToFetch, urlDetails, epc, frontResult, calls,
             prepInvoked, stopRequested>>

---------------------------------------------------------------------------
(* Strings *)

Digits == {"0", "1", "2", "3", "4", "5", "6", "7", "8", "9"}

WhiteSpace == {" ", "\n", "\t", "\r"}

\* String.prototype.startsWith
StartsWith(s, p) == Len(s) >= Len(p) /\ SubSeq(s, 1, Len(p)) = p

\* String.prototype.includes
Includes(s, p) ==
  \E k \in 1..(Len(s) - Len(p) + 1) : SubSeq(s, k, k + Len(p) - 1) = p

\* the character class [\d\s\-\(\)]
IsPhoneChar(c) == c \in Digits \cup WhiteSpace \cup {"-", "(", ")"}

AllPhoneChars(s) == \A k \in 1..Len(s) : IsPhoneChar(s[k])

\* /^\+?[\d\s\-\(\)]{10,}$/.test(s)
PhoneRegexTest(s) ==
  \/ Len(s) >= 10 /\ AllPhoneChars(s)
  \/ Len(s) >= 11 /\ s[1] = "+" /\ AllPhoneChars(Tail(s))

RECURSIVE Concat(_)
\* the concatenation of a sequence of strings
Concat(ss) == IF ss = <<>> THEN <<>> ELSE Head(ss) \o Concat(Tail(ss))

sBEGINVCARD == <<"B", "E", "G", "I", "N", ":", "V", "C", "A", "R", "D">>
sWIFI == <<"W", "I", "F", "I", ":">>
sSms == <<"s", "m", "s", ":">>
sHttp == <<"h", "t", "t", "p", ":", "/", "/">>
sHttps == <<"h", "t", "t", "p", "s", ":", "/", "/">>
sWww == <<"w", "w", "w", ".">>
sLinkedin == <<"l", "i", "n", "k", "e", "d", "i", "n", ".", "c", "o", "m">>
sTwitter == <<"t", "w", "i", "t", "t", "e", "r", ".", "c", "o", "m">>
sFacebook == <<"f", "a", "c", "e", "b", "o", "o", "k", ".", "c", "o", "m">>
sInstagram == <<"i", "n", "s", "t", "a", "g", "r", "a", "m", ".", "c", "o", "m">>
sYoutube == <<"y", "o", "u", "t", "u", "b", "e", ".", "c", "o", "m">>
sTenDigits == <<"9", "8", "4", "8", "8", "0", "6", "0", "0", "6">>

---------------------------------------------------------------------------
(* ContentClassifier: parseQRContent and its helpers *)

LowerLetters == <<"a", "b", "c", "d", "e", "f", "g", "h", "i", "j", "k", "l", "m",
                  "n", "o", "p", "q", "r", "s", "t", "u", "v", "w", "x", "y", "z">>

UpperLetters == <<"A", "B", "C", "D", "E", "F", "G", "H", "I", "J", "K", "L", "M",
                  "N", "O", "P", "Q", "R", "S", "T", "U", "V", "W", "X", "Y", "Z">>

UpperChar(c) ==
  IF \E k \in 1..Len(LowerLetters) : LowerLetters[k] = c
  THEN UpperLetters[CHOOSE k \in 1..Len(LowerLetters) : LowerLetters[k] = c]
  ELSE c

\* String.prototype.toUpperCase
ToUpperCase(s) == [k \in 1..Len(s) |-> UpperChar(s[k])]

RECURSIVE TrimStart(_)
TrimStart(s) ==
  IF s # <<>> /\ Head(s) \in WhiteSpace THEN TrimStart(Tail(s)) ELSE s

RECURSIVE TrimEnd(_)
TrimEnd(s) ==
  IF s # <<>> /\ s[Len(s)] \in WhiteSpace THEN TrimEnd(SubSeq(s, 1, Len(s) - 1)) ELSE s

\* String.prototype.trim
Trim(s) == TrimEnd(TrimStart(s))

RECURSIVE SplitFrom(_, _, _)
\* the pieces of s after the piece cur already read, split at every character sep
SplitFrom(s, sep, cur) ==
  IF s = <<>> THEN <<cur>>
  ELSE IF Head(s) = sep THEN <<cur>> \o SplitFrom(Tail(s), sep, <<>>)
  ELSE SplitFrom(Tail(s), sep, Append(cur, Head(s)))

\* String.prototype.split(sep), sep one character
Split(s, sep) == SplitFrom(s, sep, <<>>)

\* String.prototype.split(sep, limit): at most limit pieces, the rest dropped
SplitLimit(s, sep, limit) ==
  LET all == Split(s, sep)
  IN  IF Len(all) <= limit THEN all ELSE SubSeq(all, 1, limit)

\* details[k] = v on a Record<string, any>
Put(d, k, v) == [x \in (DOMAIN d) \cup {k} |-> IF x = k THEN v ELSE d[x]]

NoDetails == [x \in {} |-> <<>>]

\* the if / else-if chain of parseVCard on one key
VCardField(upperKey) ==
  IF upperKey = <<"F", "N">> THEN "name"
  ELSE IF upperKey = <<"O", "R", "G">> THEN "company"
  ELSE IF upperKey = <<"T", "I", "T", "L", "E">> THEN "title"
  ELSE IF upperKey = <<"E", "M", "A", "I", "L">> THEN "email"
  ELSE IF upperKey = <<"T", "E", "L">> THEN "phone"
  ELSE IF upperKey = <<"U", "R", "L">> THEN "website"
  ELSE IF upperKey = <<"A", "D", "R">> THEN "address"
  ELSE "none"

RECURSIVE VCardLines(_, _)
\* the for loop of parseVCard over the lines
VCardLines(lines, details) ==
  IF lines = <<>> THEN details
  ELSE LET trimmedLine == Trim(Head(lines))
       IN  IF Includes(trimmedLine, <<":">>)
           THEN LET kv == SplitLimit(trimmedLine, ":", 2)
                    field == VCardField(ToUpperCase(kv[1]))
                IN  IF field # "none"
                    THEN VCardLines(Tail(lines), Put(details, field, kv[2]))
                    ELSE VCardLines(Tail(lines), details)
           ELSE VCardLines(Tail(lines), details)

parseVCard(vcardData) == VCardLines(Split(vcardData, "\n"), NoDetails)

WiFiField(key) ==
  IF key = <<"S">> THEN "ssid"
  ELSE IF key = <<"P">> THEN "password"
  ELSE IF key = <<"T">> THEN "security"
  ELSE "none"

RECURSIVE WiFiParts(_, _)
\* the for loop of parseWiFi over the parts
WiFiParts(parts, details) ==
  IF parts = <<>> THEN details
  ELSE IF Includes(Head(parts), <<":">>)
       THEN LET kv == SplitLimit(Head(parts), ":", 2)
                field == WiFiField(kv[1])
            IN  IF field # "none"
                THEN WiFiParts(Tail(parts), Put(details, field, kv[2]))
                ELSE WiFiParts(Tail(parts), details)
       ELSE WiFiParts(Tail(parts), details)

parseWiFi(wifiData) ==
  WiFiParts(Split(SubSeq(wifiData, 6, Len(wifiData)), ";"), NoDetails)

\* parseSMS with phone and message always set, empty when missing
parseSMSBothFields(smsData) ==
  LET parts == Split(smsData, ":")
  IN  [x \in {"phone", "message"} |->
         IF x = "phone" THEN (IF Len(parts) >= 2 THEN parts[2] ELSE <<>>)
         ELSE (IF Len(parts) >= 3 THEN parts[3] ELSE <<>>)]

parseSMS(smsData) ==
  LET parts == Split(smsData, ":")
  IN  IF Includes(smsData, <<":">>) /\ Len(parts) >= 3
      THEN [x \in {"phone", "message"} |-> IF x = "phone" THEN parts[2] ELSE parts[3]]
      ELSE [x \in {"raw"} |-> smsData]

\* socialPlatforms, with platform.split('.')[0] of each
socialPlatforms ==
  << [domain |-> sTwitter, label |-> <<"t", "w", "i", "t", "t", "e", "r">>,
      title |-> "twitter Profile"],
     [domain |-> sFacebook, label |-> <<"f", "a", "c", "e", "b", "o", "o", "k">>,
      title |-> "facebook Profile"],
     [domain |-> sInstagram, label |-> <<"i", "n", "s", "t", "a", "g", "r", "a", "m">>,
      title |-> "instagram Profile"],
     [domain |-> sYoutube, label |-> <<"y", "o", "u", "t", "u", "b", "e">>,
      title |-> "youtube Profile"] >>

\* socialPlatforms.find(p => qrData.includes(p)): the index of the first hit, or 0
FindPlatform(qrData) ==
  LET hits == {k \in 1..Len(socialPlatforms) : Includes(qrData, socialPlatforms[k].domain)}
  IN  IF hits = {} THEN 0 ELSE CHOOSE k \in hits : \A j \in hits : k <= j

ParsedQRData(type, title, details, raw) ==
  [content_type |-> type, title |-> title, details |-> details, raw_data |-> raw]

\* the record parseQRContent starts from
Unparsed(qrData) == ParsedQRData("unknown", "", NoDetails, qrData)

\* the rule chain of parseQRContent, in the order of the source
parseQRContent(qrData) ==
  IF StartsWith(qrData, sHttp) \/ StartsWith(qrData, sHttps) \/ StartsWith(qrData, sWww)
  THEN ParsedQRData("url", "Website Link", [x \in {"url"} |-> qrData], qrData)
  ELSE IF Includes(qrData, <<"@">>) /\ Includes(qrData, <<".">>)
  THEN ParsedQRData("email", "Email Address", [x \in {"email"} |-> qrData], qrData)
  ELSE IF PhoneRegexTest(qrData)
  THEN ParsedQRData("phone", "Phone Number", [x \in {"phone"} |-> qrData], qrData)
  ELSE IF StartsWith(qrData, sBEGINVCARD)
  THEN ParsedQRData("vcard", "Business Card", parseVCard(qrData), qrData)
  ELSE IF StartsWith(qrData, sWIFI)
  THEN ParsedQRData("wifi", "WiFi Network", parseWiFi(qrData), qrData)
  ELSE IF StartsWith(qrData, sSms)
  THEN ParsedQRData("sms", "SMS Message", parseSMS(qrData), qrData)
  ELSE IF Includes(qrData, sLinkedin)
  THEN ParsedQRData("linkedin", "LinkedIn Profile",
                    [x \in {"url", "platform"} |->
                       IF x = "url" THEN qrData ELSE <<"L", "i", "n", "k", "e", "d", "I", "n">>],
                    qrData)
  ELSE IF FindPlatform(qrData) # 0
  THEN LET platform == socialPlatforms[FindPlatform(qrData)]
       IN  ParsedQRData("social", platform.title,
                        [x \in {"url", "platform"} |->
                           IF x = "url" THEN qrData ELSE platform.label],
                        qrData)
  ELSE ParsedQRData("text", "Text Content", [x \in {"text"} |-> qrData], qrData)


---------------------------------------------------------------------------
(* The images, the payloads on them and the collaborators' answers *)

\* the largest number of codes one answer of the decoding service lists
MaxCodes == 2

DataA == sHttps \o <<"a">>

DataB == <<"b">>

\* the payloads a code on the captured image can carry
DataSet == {DataA, DataB}

\* what window.jsQR does on one image: no code, an exception, or a code's data
LocalRaw == {<<"null">>, <<"throws">>} \cup {<<"code", d>> : d \in DataSet}

RECURSIVE SeqsUpTo(_, _)
\* the sequences over S of length at most n
SeqsUpTo(S, n) ==
  IF n = 0 THEN {<<>>}
  ELSE LET shorter == SeqsUpTo(S, n - 1)
       IN  shorter \cup {Append(s, x) : s \in {q \in shorter : Len(q) = n - 1}, x \in S}

\* the qr_codes lists of the backend proxy's answers
RemoteLists == SeqsUpTo(DataSet, MaxCodes)

\* the bodies response.json() can meet: not JSON, the JSON null, or an object
Bodies ==
  {[shape |-> "invalid", success |-> FALSE, qr_codes |-> <<>>],
   [shape |-> "null", success |-> FALSE, qr_codes |-> <<>>]}
  \cup {[shape |-> "object", success |-> s, qr_codes |-> l] :
          s \in BOOLEAN, l \in RemoteLists}

NoBody == [shape |-> "none", success |-> FALSE, qr_codes |-> <<>>]

\* the transforms of preprocessImage, in the order it pushes them
Transforms == <<"contrast", "grayscaleContrast", "threshold", "resize">>

QRCodeResult(d, m) == [data |-> d, method |-> m]

---------------------------------------------------------------------------
(* QRDetectionService: the pure parts *)

\* detectWithJSQR: null (<<>>) when jsQR is missing, finds nothing or throws
detectWithJSQR(loaded, raw) ==
  IF ~loaded THEN <<>>
  ELSE IF raw[1] = "code" THEN <<QRCodeResult(raw[2], "jsQR")>>
  ELSE <<>>

\* detectWithZXing: skipped in the source, always the empty array
detectWithZXing(loaded) == <<>>

\* preprocessImage: the four transforms in order, or [] when one of them throws
preprocessImage(ok) == IF ok THEN Transforms ELSE <<>>

RECURSIVE FilterSeen(_, _)
\* results.filter with the seen set of removeDuplicates
FilterSeen(rs, seen) ==
  IF rs = <<>> THEN <<>>
  ELSE IF Head(rs).data \in seen THEN FilterSeen(Tail(rs), seen)
  ELSE <<Head(rs)>> \o FilterSeen(Tail(rs), seen \cup {Head(rs).data})

removeDuplicates(rs) == FilterSeen(rs, {})

\* the try block of detectWithGoQRAPI from the point met on: what it returns or throws
GoQRTry(met, body) ==
  IF met = "ctx" THEN [threw |-> FALSE, value |-> <<>>]
  ELSE IF met = "neterr" THEN [threw |-> TRUE, value |-> <<>>]
  ELSE IF met = "non2xx" THEN [threw |-> TRUE, value |-> <<>>]
  ELSE IF body.shape = "invalid" THEN [threw |-> TRUE, value |-> <<>>]
  ELSE IF body.shape = "null" THEN [threw |-> TRUE, value |-> <<>>]
  ELSE IF body.success /\ Len(body.qr_codes) > 0
  THEN [threw |-> FALSE,
        value |-> [k \in 1..Len(body.qr_codes) |-> QRCodeResult(body.qr_codes[k], "goQR")]]
  ELSE [threw |-> FALSE, value |-> <<>>]

\* detectWithGoQRAPI without its catch block: a failure propagates
GoQRNoCatch(met, body) == GoQRTry(met, body)

\* detectWithGoQRAPI: the try block under its catch, which returns []
detectWithGoQRAPI(met, body) ==
  LET r == GoQRTry(met, body)
  IN  IF r.threw THEN [threw |-> FALSE, value |-> <<>>] ELSE r

\* Tier 2 is always entered, whatever Tier 0 and Tier 1 found
AfterTier1Always(res) == "t2remote"

\* line 107: the remote decoder on the original image only if nothing was found
AfterTier1(res) == IF Len(res) = 0 THEN "t2remote" ELSE "zxing"

\* preprocessing is entered although Tier 0 found a code
AfterTier0Always(res) == "prep"

\* line 75: preprocessing only if Tier 0 found nothing
AfterTier0(res) == IF Len(res) = 0 THEN "prep" ELSE AfterTier1(res)

\* the head of the Tier 1 loop
LoopHead(i, imgs, res) == IF i <= Len(imgs) THEN "t1local" ELSE AfterTier1(res)

\* the Tier 1 loop goes on to the next transform after a local hit
AfterT1LocalNoBreak(i, imgs, res, found) == LoopHead(i + 1, imgs, res)

\* the remote decoder is called on the same image although the local one hit
AfterT1LocalRemoteAnyway(i, imgs, res, found) == "t1remote"

\* lines 86-90: break on a local hit, else the remote decoder on the same image
AfterT1Local(i, imgs, res, found) ==
  IF found THEN AfterTier1(res) ELSE "t1remote"

\* the Tier 1 loop goes on to the next transform after a remote hit
AfterT1RemoteNoBreak(i, imgs, res, found) == LoopHead(i + 1, imgs, res)

\* lines 95-99: break on a remote hit, else the next transform
AfterT1Remote(i, imgs, res, found) ==
  IF found THEN AfterTier1(res) ELSE LoopHead(i + 1, imgs, res)

\* the filter of processQRCodeFrontend that picks the URLs to enrich
IsUrl(d) == StartsWith(d, sHttp) \/ StartsWith(d, sHttps) \/ StartsWith(d, sWww)

RECURSIVE UrlsOf(_)
UrlsOf(rs) ==
  IF rs = <<>> THEN <<>>
  ELSE IF IsUrl(Head(rs).data) THEN <<Head(rs).data>> \o UrlsOf(Tail(rs))
  ELSE UrlsOf(Tail(rs))


---------------------------------------------------------------------------
(* The state machine: ScanView driving QRDetectionService *)

libVars == <<jsQR, ZXing>>
uiVars == <<isScanning, scanMode>>
\* the variables of the pure steps: classifier, extractors, merge
extractVars == <<text, info, extractedBy>>
mergeVars == <<result, saved>>
camVars == <<streamRef, live, starting, timers, effectDeps>>
batchVars == <<uploadedFiles, isUploading, bpc, pendingFiles, qrResults, atStart,
               saves, batchOutcome>>
pixelVars == <<frame, enhanced>>
\* the variables no step of a capture changes
otherVars == <<payload, parsed, extractVars, mergeVars, camVars, batchVars, pixelVars>>
enrichVars == <<urlsToFetch, urlDetails, epc>>
detectVars == <<idx, preprocessedImages, results, rpc, lastRemote, detectOutcome,
                detectResult>>

ScanModes == {"qr", "nfc", "text"}

NoRemote == [met |-> "none", body |-> NoBody, threw |-> FALSE, value |-> <<>>]

NoResult == [success |-> FALSE, qrCount |-> 0, qrCodes |-> <<>>, from |-> "none"]

\* what fetchURLDetails returns: success, the request that decided it (via), whether
\* the object carries an error, and what the GET had met (kept for the properties)
URLDetails(url, success, via, get) ==
  [url |-> url, success |-> success, via |-> via, error |-> ~success, get |-> get]

NoUrlDetails == [u \in {} |-> URLDetails(<<>>, FALSE, "none", "none")]

\* the catch block of fetchURLDetails is waiting for its HEAD request; the name
\* keeps what sent the call there
HeadSteps == {"headNeterr", "headNon2xx", "headText"}

\* what the GET had met when the catch block was entered
GetMet(step) ==
  IF step = "headNeterr" THEN "neterr"
  ELSE IF step = "headNon2xx" THEN "non2xx"
  ELSE "ok"

\* the run is suspended at an await that only a timer, an event or the network ends
Suspended ==
  \/ pc \in {"idle", "captureBlob", "toImageData", "init", "backend", "backendJson"}
  \/ pc \in {"captureBlobText", "vision", "visionJson", "ocr", "ocrJson", "save"}
  \/ pc \in {"t1remote", "t2remote"} /\ rpc \in {"blob", "fetch", "json"}
  \/ pc = "enrich" /\ epc \in {"get", "text"} \cup HeadSteps

\* one entry of the call history
Call(dec, img, out) == [dec |-> dec, img |-> img, out |-> out, stopped |-> stopRequested]

\* the history with the answer of the call that just finished filled in
Answered(log, out) == [log EXCEPT ![Len(log)].out = out]

\* an info record that starts without its email property
EmptyInfoNoEmail ==
  [name |-> <<>>, title |-> <<>>, company |-> <<>>, phone |-> <<>>,
   website |-> <<>>, address |-> <<>>, otherInfo |-> <<>>]

\* const info of the extractors: every field empty
EmptyInfo ==
  [name |-> <<>>, title |-> <<>>, company |-> <<>>, phone |-> <<>>, email |-> <<>>,
   website |-> <<>>, address |-> <<>>, otherInfo |-> <<>>]

\* an object without any property
NoObject == [x \in {} |-> <<>>]

\* no extractor and no saveToDatabase has run
UploadIdle ==
  /\ text = <<>>
  /\ info = EmptyInfo
  /\ extractedBy = "none"
  /\ result = NoObject
  /\ saved = NoObject

\* an ImageData that is not there
NoFrame == [width |-> 0, height |-> 0, data |-> <<>>]

\* the camera is off, the upload view is empty, no transform has run
ViewIdle ==
  /\ streamRef = 0
  /\ live = {}
  /\ starting = 0
  /\ timers = 0
  /\ effectDeps = <<FALSE, "null">>
  /\ uploadedFiles = <<>>
  /\ isUploading = FALSE
  /\ bpc = "idle"
  /\ pendingFiles = <<>>
  /\ qrResults = {}
  /\ atStart = <<>>
  /\ saves = <<>>
  /\ batchOutcome = "none"
  /\ frame = NoFrame
  /\ enhanced = NoFrame

RunInit ==
  /\ ViewIdle
  /\ jsQR \in BOOLEAN
  /\ ZXing \in BOOLEAN
  /\ isInitialized = FALSE
  /\ isScanning = FALSE
  /\ scanMode = "null"
  /\ isProcessing = FALSE
  /\ pc = "idle"
  /\ idx = 0
  /\ preprocessedImages = <<>>
  /\ results = <<>>
  /\ rpc = "none"
  /\ net = "responds"
  /\ lastRemote = NoRemote
  /\ detectOutcome = "none"
  /\ detectResult = <<>>
  /\ urlsToFetch = <<>>
  /\ urlDetails = NoUrlDetails
  /\ epc = "none"
  /\ frontResult = NoResult
  /\ calls = <<>>
  /\ prepInvoked = FALSE
  /\ stopRequested = FALSE

Init ==
  /\ RunInit
  /\ payload = <<>>
  /\ parsed = Unparsed(<<>>)
  /\ UploadIdle

\* a <script> of index.html finishes loading
LoadJsQR ==
  /\ Suspended
  /\ ~jsQR
  /\ jsQR' = TRUE
  /\ UNCHANGED <<ZXing, isInitialized, uiVars, isProcessing, pc, detectVars, net,
                 enrichVars, frontResult, calls, prepInvoked, stopRequested, otherVars>>

LoadZXing ==
  /\ Suspended
  /\ ~ZXing
  /\ ZXing' = TRUE
  /\ UNCHANGED <<jsQR, isInitialized, uiVars, isProcessing, pc, detectVars, net,
                 enrichVars, frontResult, calls, prepInvoked, stopRequested, otherVars>>

startScan(mode) ==
  /\ Suspended
  /\ ~isScanning
  /\ scanMode' = mode
  /\ isScanning' = TRUE
  /\ UNCHANGED <<libVars, isInitialized, isProcessing, pc, detectVars, net, enrichVars,
                 frontResult, calls, prepInvoked, stopRequested, otherVars>>

\* detectQRCodes or the enrichment that follows it is under way
DetectionInFlight ==
  pc \in {"init", "tier0", "prep", "t1local", "t1remote", "t2remote", "zxing",
          "detected", "enrich"}

\* stopCamera: the tracks of the stream streamRef holds are stopped and the ref is
\* cleared
stopCamera ==
  /\ live' = IF streamRef # 0 THEN live \ {streamRef} ELSE live
  /\ streamRef' = 0

\* stopScan: stops the camera and leaves the scanning view; the run is not told
stopScan ==
  /\ Suspended
  /\ isScanning
  /\ stopCamera
  /\ isScanning' = FALSE
  /\ scanMode' = "null"
  /\ stopRequested' = IF DetectionInFlight THEN TRUE ELSE stopRequested
  /\ UNCHANGED <<libVars, isInitialized, isProcessing, pc, detectVars, net, enrichVars,
                 frontResult, calls, prepInvoked, payload, parsed, extractVars,
                 mergeVars, starting, timers, effectDeps, batchVars, pixelVars>>

\* processImage ends: the result is shown and isProcessing is reset
Finish(res) ==
  /\ frontResult' = res
  /\ isProcessing' = FALSE
  /\ pc' = "idle"

\* processQRCodeBackend is called: its fetch is sent
EnterBackend ==
  /\ pc' = "backend"
  /\ calls' = Append(calls, Call("backend", 0, <<>>))
  /\ net' \in {"responds", "silent"}

\* the capture button of the QR and of the text scanner: captureImage up to
\* canvas.toBlob (its two early exits, refs not ready and no canvas context, only
\* set the status text); the callback keeps the scanMode of the click
captureImage ==
  /\ pc = "idle"
  /\ isScanning
  /\ scanMode \in {"qr", "text"}
  /\ ~isProcessing
  /\ isProcessing' = TRUE
  /\ pc' = IF scanMode = "qr" THEN "captureBlob" ELSE "captureBlobText"
  /\ idx' = 0
  /\ preprocessedImages' = <<>>
  /\ results' = <<>>
  /\ rpc' = "none"
  /\ net' = "responds"
  /\ lastRemote' = NoRemote
  /\ detectOutcome' = "none"
  /\ detectResult' = <<>>
  /\ urlsToFetch' = <<>>
  /\ urlDetails' = NoUrlDetails
  /\ epc' = "none"
  /\ frontResult' = NoResult
  /\ calls' = <<>>
  /\ prepInvoked' = FALSE
  /\ stopRequested' = FALSE
  /\ UNCHANGED <<libVars, isInitialized, uiVars, otherVars>>

\* the toBlob callback of captureImage, then processImage and processQRCodeFrontend
\* up to the await of blobToImageData
captureBlob ==
  /\ pc = "captureBlob"
  /\ \E blob \in BOOLEAN, ctx \in BOOLEAN :
       IF ~blob
       THEN /\ Finish(NoResult)
            /\ UNCHANGED <<calls, net>>
       ELSE IF ~ctx
       THEN EnterBackend /\ UNCHANGED <<isProcessing, frontResult>>
       ELSE /\ pc' = "toImageData"
            /\ UNCHANGED <<isProcessing, frontResult, calls, net>>
  /\ UNCHANGED <<libVars, isInitialized, uiVars, detectVars, enrichVars, prepInvoked,
                 stopRequested, otherVars>>

\* img.onload / img.onerror of blobToImageData, then detectQRCodes up to the first
\* poll of waitForLibraries
toImageData ==
  /\ pc = "toImageData"
  /\ \E loaded \in BOOLEAN :
       IF ~loaded
       THEN EnterBackend /\ UNCHANGED isInitialized
       ELSE /\ UNCHANGED <<calls, net>>
            /\ IF isInitialized
               THEN pc' = "tier0" /\ UNCHANGED isInitialized
               ELSE IF jsQR /\ ZXing
               THEN pc' = "tier0" /\ isInitialized' = TRUE
               ELSE pc' = "init" /\ UNCHANGED isInitialized
  /\ UNCHANGED <<libVars, uiVars, isProcessing, detectVars, enrichVars, frontResult,
                 prepInvoked, stopRequested, otherVars>>

\* a later poll of waitForLibraries finds both libraries
initPoll ==
  /\ pc = "init"
  /\ jsQR /\ ZXing
  /\ isInitialized' = TRUE
  /\ pc' = "tier0"
  /\ UNCHANGED <<libVars, uiVars, isProcessing, detectVars, net, enrichVars, frontResult,
                 calls, prepInvoked, stopRequested, otherVars>>

\* maxWaitTime has passed: waitForLibraries throws, initialize and detectQRCodes
\* reject (the await is outside the try), processQRCodeFrontend falls back
initTimeout ==
  /\ pc = "init"
  /\ detectOutcome' = "rejected"
  /\ EnterBackend
  /\ UNCHANGED <<libVars, isInitialized, uiVars, isProcessing, idx, preprocessedImages,
                 results, rpc, lastRemote, detectResult, enrichVars, frontResult,
                 prepInvoked, stopRequested, otherVars>>


\* lines 66-72: the local decoder on the original image
tier0 ==
  /\ pc = "tier0"
  /\ \E raw \in LocalRaw :
       LET found == detectWithJSQR(jsQR, raw)
           res == results \o found
       IN  /\ results' = res
           /\ calls' = Append(calls, Call("local", 0, found))
           /\ pc' = AfterTier0(res)
  /\ UNCHANGED <<libVars, isInitialized, uiVars, isProcessing, idx, preprocessedImages,
                 rpc, net, lastRemote, detectOutcome, detectResult, enrichVars,
                 frontResult, prepInvoked, stopRequested, otherVars>>

\* lines 75-81: preprocessImage and the head of the Tier 1 loop
prep ==
  /\ pc = "prep"
  /\ prepInvoked' = TRUE
  /\ \E ok \in BOOLEAN :
       /\ preprocessedImages' = preprocessImage(ok)
       /\ idx' = 1
       /\ pc' = LoopHead(1, preprocessImage(ok), results)
  /\ UNCHANGED <<libVars, isInitialized, uiVars, isProcessing, results, rpc, net,
                 lastRemote, detectOutcome, detectResult, enrichVars, frontResult, calls,
                 stopRequested, otherVars>>

\* lines 82-90: the local decoder on preprocessedImages[i]
t1local ==
  /\ pc = "t1local"
  /\ \E raw \in LocalRaw :
       LET found == detectWithJSQR(jsQR, raw)
           res == results \o found
       IN  /\ results' = res
           /\ calls' = Append(calls, Call("local", idx, found))
           /\ pc' = AfterT1Local(idx, preprocessedImages, res, found # <<>>)
  /\ UNCHANGED <<libVars, isInitialized, uiVars, isProcessing, idx, preprocessedImages,
                 rpc, net, lastRemote, detectOutcome, detectResult, enrichVars,
                 frontResult, prepInvoked, stopRequested, otherVars>>

\* the image the pending or next detectWithGoQRAPI call is about: 0 is the original
RemoteImage == IF pc = "t1remote" THEN idx ELSE 0

\* detectWithGoQRAPI settles with r = [threw, value] and the caller goes on: the
\* catch of lines 100 and 115 takes a throw as nothing found; a Tier 1 hit breaks
\* the loop, a Tier 2 hit returns results as they are (line 113)
RemoteReturns(met, body, r, log) ==
  LET ret == IF r.threw THEN <<>> ELSE r.value
      res == results \o ret
  IN  /\ lastRemote' = [met |-> met, body |-> body, threw |-> r.threw, value |-> r.value]
      /\ calls' = Answered(log, ret)
      /\ rpc' = "none"
      /\ results' = res
      /\ IF pc = "t1remote"
         THEN /\ idx' = IF ret # <<>> THEN idx ELSE idx + 1
              /\ pc' = AfterT1Remote(idx, preprocessedImages, res, ret # <<>>)
              /\ UNCHANGED <<detectOutcome, detectResult>>
         ELSE IF ret # <<>>
         THEN /\ detectOutcome' = "returned"
              /\ detectResult' = res
              /\ pc' = "detected"
              /\ UNCHANGED idx
         ELSE /\ pc' = "zxing"
              /\ UNCHANGED <<idx, detectOutcome, detectResult>>

\* lines 186-203: detectWithGoQRAPI is called and runs up to the await of toBlob
remoteBegin ==
  /\ pc \in {"t1remote", "t2remote"}
  /\ rpc = "none"
  /\ \E ctx \in BOOLEAN :
       IF ~ctx
       THEN /\ RemoteReturns("ctx", NoBody, detectWithGoQRAPI("ctx", NoBody),
                             Append(calls, Call("remote", RemoteImage, <<>>)))
            /\ UNCHANGED net
       ELSE /\ calls' = Append(calls, Call("remote", RemoteImage, <<>>))
            /\ rpc' = "blob"
            /\ net' \in {"responds", "silent"}
            /\ UNCHANGED <<pc, idx, results, lastRemote, detectOutcome, detectResult>>
  /\ UNCHANGED <<libVars, isInitialized, uiVars, isProcessing, preprocessedImages,
                 enrichVars, frontResult, prepInvoked, stopRequested, otherVars>>

\* the toBlob callback hands over a blob (with null the promise never resolves):
\* the fetch to the backend proxy is sent
blobDelivered ==
  /\ pc \in {"t1remote", "t2remote"}
  /\ rpc = "blob"
  /\ net = "responds"
  /\ rpc' = "fetch"
  /\ net' \in {"responds", "silent"}
  /\ UNCHANGED <<libVars, isInitialized, uiVars, isProcessing, pc, idx,
                 preprocessedImages, results, lastRemote, detectOutcome, detectResult,
                 enrichVars, frontResult, calls, prepInvoked, stopRequested, otherVars>>

\* the fetch settles: rejected, a non-2xx response, or a 2xx response
fetchSettles ==
  /\ pc \in {"t1remote", "t2remote"}
  /\ rpc = "fetch"
  /\ net = "responds"
  /\ \E met \in {"neterr", "non2xx", "ok"} :
       IF met = "ok"
       THEN /\ rpc' = "json"
            /\ UNCHANGED <<pc, idx, results, lastRemote, detectOutcome, detectResult,
                           calls>>
       ELSE RemoteReturns(met, NoBody, detectWithGoQRAPI(met, NoBody), calls)
  /\ UNCHANGED <<libVars, isInitialized, uiVars, isProcessing, preprocessedImages, net,
                 enrichVars, frontResult, prepInvoked, stopRequested, otherVars>>

\* response.json() settles and the answer is read
jsonSettles ==
  /\ pc \in {"t1remote", "t2remote"}
  /\ rpc = "json"
  /\ \E body \in Bodies : RemoteReturns("json", body, detectWithGoQRAPI("json", body), calls)
  /\ UNCHANGED <<libVars, isInitialized, uiVars, isProcessing, preprocessedImages, net,
                 enrichVars, frontResult, prepInvoked, stopRequested, otherVars>>

\* lines 120-127: detectWithZXing, removeDuplicates, return
zxing ==
  /\ pc = "zxing"
  /\ LET res == results \o detectWithZXing(ZXing)
     IN  /\ results' = res
         /\ detectResult' = removeDuplicates(res)
  /\ detectOutcome' = "returned"
  /\ pc' = "detected"
  /\ UNCHANGED <<libVars, isInitialized, uiVars, isProcessing, idx, preprocessedImages,
                 rpc, net, lastRemote, enrichVars, frontResult, calls, prepInvoked,
                 stopRequested, otherVars>>


\* lines 345-357 and 375-379: processQRCodeFrontend after detectQRCodes resolved
detected ==
  /\ pc = "detected"
  /\ IF Len(detectResult) > 0
     THEN /\ urlsToFetch' = UrlsOf(detectResult)
          /\ urlDetails' = NoUrlDetails
          /\ pc' = "enrich"
          /\ UNCHANGED <<calls, net>>
     ELSE /\ EnterBackend
          /\ UNCHANGED <<urlsToFetch, urlDetails>>
  /\ UNCHANGED <<libVars, isInitialized, uiVars, isProcessing, detectVars, epc,
                 frontResult, prepInvoked, stopRequested, otherVars>>

\* the head of the loop over urlsToFetch: the next fetchURLDetails call sends its
\* GET, or the loop is over and processQRCodeFrontend returns
enrichNext ==
  /\ pc = "enrich"
  /\ epc = "none"
  /\ IF urlsToFetch = <<>>
     THEN /\ Finish([success |-> TRUE, qrCount |-> Len(detectResult),
                     qrCodes |-> detectResult, from |-> "frontend"])
          /\ UNCHANGED <<epc, calls, net>>
     ELSE /\ epc' = "get"
          /\ calls' = Append(calls, Call("enrich", 0, <<Head(urlsToFetch)>>))
          /\ net' \in {"responds", "silent"}
          /\ UNCHANGED <<pc, isProcessing, frontResult>>
  /\ UNCHANGED <<libVars, isInitialized, uiVars, detectVars, urlsToFetch, urlDetails,
                 prepInvoked, stopRequested, otherVars>>

\* urlDetails[url] = details, and the loop goes to the next URL
StoreDetails(details) ==
  /\ urlDetails' = [u \in (DOMAIN urlDetails) \cup {Head(urlsToFetch)} |->
                      IF u = Head(urlsToFetch) THEN details ELSE urlDetails[u]]
  /\ urlsToFetch' = Tail(urlsToFetch)
  /\ epc' = "none"

\* fetchURLDetails: the GET settles; a rejection or a non-2xx status goes to the
\* catch block, which sends the HEAD request
getSettles ==
  /\ pc = "enrich"
  /\ epc = "get"
  /\ net = "responds"
  /\ \E met \in {"neterr", "non2xx", "ok"} :
       IF met = "ok"
       THEN epc' = "text" /\ UNCHANGED net
       ELSE /\ epc' = (IF met = "neterr" THEN "headNeterr" ELSE "headNon2xx")
            /\ net' \in {"responds", "silent"}
  /\ UNCHANGED <<libVars, isInitialized, uiVars, isProcessing, pc, detectVars,
                 urlsToFetch, urlDetails, frontResult, calls, prepInvoked,
                 stopRequested, otherVars>>

\* fetchURLDetails: response.text() settles and the page is analysed
textSettles ==
  /\ pc = "enrich"
  /\ epc = "text"
  /\ \E ok \in BOOLEAN :
       IF ok
       THEN StoreDetails(URLDetails(Head(urlsToFetch), TRUE, "get", "ok")) /\ UNCHANGED net
       ELSE /\ epc' = "headText"
            /\ net' \in {"responds", "silent"}
            /\ UNCHANGED <<urlsToFetch, urlDetails>>
  /\ UNCHANGED <<libVars, isInitialized, uiVars, isProcessing, pc, detectVars,
                 frontResult, calls, prepInvoked, stopRequested, otherVars>>

\* fetchURLDetails: the HEAD request of the catch block settles
headSettles ==
  /\ pc = "enrich"
  /\ epc \in HeadSteps
  /\ net = "responds"
  /\ \E ok \in BOOLEAN :
       StoreDetails(URLDetails(Head(urlsToFetch), ok,
                               IF ok THEN "head" ELSE "failed", GetMet(epc)))
  /\ UNCHANGED <<libVars, isInitialized, uiVars, isProcessing, pc, detectVars, net,
                 frontResult, calls, prepInvoked, stopRequested, otherVars>>

\* processQRCodeBackend: its fetch settles
backendSettles ==
  /\ pc = "backend"
  /\ net = "responds"
  /\ \E met \in {"neterr", "non2xx", "ok"} :
       IF met = "ok"
       THEN /\ pc' = "backendJson"
            /\ UNCHANGED <<isProcessing, frontResult>>
       ELSE Finish([success |-> FALSE, qrCount |-> 0, qrCodes |-> <<>>,
                    from |-> "backend"])
  /\ UNCHANGED <<libVars, isInitialized, uiVars, detectVars, net, enrichVars, calls,
                 prepInvoked, stopRequested, otherVars>>

\* processQRCodeBackend: response.json() settles and the answer is read
backendJson ==
  /\ pc = "backendJson"
  /\ \E body \in Bodies :
       IF body.shape # "object"
       THEN Finish([success |-> FALSE, qrCount |-> 0, qrCodes |-> <<>>,
                    from |-> "backend"])
       ELSE IF body.success /\ Len(body.qr_codes) > 0
       THEN Finish([success |-> TRUE, qrCount |-> Len(body.qr_codes),
                    qrCodes |-> [k \in 1..Len(body.qr_codes) |->
                                   QRCodeResult(body.qr_codes[k], "backend")],
                    from |-> "backend"])
       ELSE Finish([success |-> TRUE, qrCount |-> 0, qrCodes |-> <<>>,
                    from |-> "backend"])
  /\ UNCHANGED <<libVars, isInitialized, uiVars, detectVars, net, enrichVars, calls,
                 prepInvoked, stopRequested, otherVars>>

\* what processImage shows in text mode: the extraction failed, or it succeeded
\* (whether or not saveToDatabase rejected, lines 221-227)
TextFailed == [success |-> FALSE, qrCount |-> 0, qrCodes |-> <<>>, from |-> "text"]

\* a rejection of saveToDatabase that leaves processImage
SaveOutcomeUncaught(ok) ==
  [success |-> ok, qrCount |-> 0, qrCodes |-> <<>>,
   from |-> IF ok THEN "text" ELSE "uncaught"]

SaveOutcome(ok) == [success |-> TRUE, qrCount |-> 0, qrCodes |-> <<>>, from |-> "text"]

\* the bodies the OCR and the vision endpoint can answer with: not JSON, the JSON
\* null, or an object with success and (structured) a non-empty structured_data
TextBodies ==
  {[shape |-> sh, success |-> s, structured |-> d] :
     sh \in {"invalid", "null", "object"}, s \in BOOLEAN, d \in BOOLEAN}

\* a fetch of the text pipeline is sent
SendText(dec, log) ==
  /\ pc' = dec
  /\ calls' = Append(log, Call(dec, 0, <<>>))
  /\ net' \in {"responds", "silent"}

\* the toBlob callback of captureImage in text mode, then processImage,
\* processTextHybrid and processBusinessCardVision up to the await of fetch
captureBlobText ==
  /\ pc = "captureBlobText"
  /\ \E blob \in BOOLEAN :
       IF ~blob
       THEN Finish(NoResult) /\ UNCHANGED <<calls, net>>
       ELSE SendText("vision", calls) /\ UNCHANGED <<isProcessing, frontResult>>
  /\ UNCHANGED <<libVars, isInitialized, uiVars, detectVars, enrichVars, prepInvoked,
                 stopRequested, otherVars>>

\* processBusinessCardVision: its fetch settles; a failure makes processTextHybrid
\* call processTextOCR
visionSettles ==
  /\ pc = "vision"
  /\ net = "responds"
  /\ \E met \in {"neterr", "non2xx", "ok"} :
       IF met = "ok"
       THEN pc' = "visionJson" /\ UNCHANGED <<calls, net>>
       ELSE SendText("ocr", Answered(calls, <<"failed">>))
  /\ UNCHANGED <<libVars, isInitialized, uiVars, isProcessing, detectVars, enrichVars,
                 frontResult, prepInvoked, stopRequested, otherVars>>

\* processBusinessCardVision: response.json() settles; processTextHybrid takes the
\* answer only when it succeeded with structured data
visionJson ==
  /\ pc = "visionJson"
  /\ \E body \in TextBodies :
       IF body.shape = "object" /\ body.success /\ body.structured
       THEN SendText("save", Answered(calls, <<"ok">>))
       ELSE SendText("ocr", Answered(calls, <<"failed">>))
  /\ UNCHANGED <<libVars, isInitialized, uiVars, isProcessing, detectVars, enrichVars,
                 frontResult, prepInvoked, stopRequested, otherVars>>

\* processTextOCR: its fetch settles
ocrSettles ==
  /\ pc = "ocr"
  /\ net = "responds"
  /\ \E met \in {"neterr", "non2xx", "ok"} :
       IF met = "ok"
       THEN pc' = "ocrJson" /\ UNCHANGED <<isProcessing, frontResult, calls>>
       ELSE Finish(TextFailed) /\ calls' = Answered(calls, <<"failed">>)
  /\ UNCHANGED <<libVars, isInitialized, uiVars, detectVars, net, enrichVars,
                 prepInvoked, stopRequested, otherVars>>

\* processTextOCR: response.json() settles and the text is analysed
ocrJson ==
  /\ pc = "ocrJson"
  /\ \E body \in TextBodies :
       IF body.shape = "object" /\ body.success
       THEN SendText("save", Answered(calls, <<"ok">>))
            /\ UNCHANGED <<isProcessing, frontResult>>
       ELSE /\ Finish(TextFailed)
            /\ calls' = Answered(calls, <<"failed">>)
            /\ UNCHANGED net
  /\ UNCHANGED <<libVars, isInitialized, uiVars, detectVars, enrichVars, prepInvoked,
                 stopRequested, otherVars>>

\* saveToDatabase(result, 'text_scan') settles; processImage shows the result
saveSettles ==
  /\ pc = "save"
  /\ net = "responds"
  /\ \E ok \in BOOLEAN :
       /\ Finish(SaveOutcome(ok))
       /\ calls' = Answered(calls, IF ok THEN <<"ok">> ELSE <<"failed">>)
  /\ UNCHANGED <<libVars, isInitialized, uiVars, detectVars, net, enrichVars,
                 prepInvoked, stopRequested, otherVars>>

\* the steps of one capture, from the toBlob callback to the end of processImage
RunStep ==
  \/ captureBlob
  \/ captureBlobText
  \/ visionSettles
  \/ visionJson
  \/ ocrSettles
  \/ ocrJson
  \/ saveSettles
  \/ toImageData
  \/ initPoll
  \/ initTimeout
  \/ tier0
  \/ prep
  \/ t1local
  \/ remoteBegin
  \/ blobDelivered
  \/ fetchSettles
  \/ jsonSettles
  \/ zxing
  \/ detected
  \/ enrichNext
  \/ getSettles
  \/ textSettles
  \/ headSettles
  \/ backendSettles
  \/ backendJson

Next ==
  \/ LoadJsQR
  \/ LoadZXing
  \/ \E mode \in ScanModes : startScan(mode)
  \/ stopScan
  \/ captureImage
  \/ RunStep

Spec == Init /\ [][Next]_vars

\* every step of a run that can be taken is taken; a collaborator that stays
\* silent enables no step
FairSpec == Init /\ [][Next]_vars /\ WF_vars(RunStep)


---------------------------------------------------------------------------
(* parseQRContent as a step, on payloads put together from a few pieces *)

\* the largest number of pieces a payload is put together from
MaxParts == 3

Pieces == {sBEGINVCARD, sWIFI, sSms, sHttps, sLinkedin, sTenDigits,
           <<"@">>, <<".">>, <<"+">>, <<":">>, <<"x">>}

\* the four payloads the specification classifies by example
sExampleUrl ==
  <<"h", "t", "t", "p", "s", ":", "/", "/", "e", "x", "a", "m", "p", "l",
    "e", ".", "c", "o", "m">>

sJaneVCard ==
  <<"B", "E", "G", "I", "N", ":", "V", "C", "A", "R", "D", "\n", "F", "N",
    ":", "J", "a", "n", "e", " ", "D", "o", "e", "\n", "O", "R", "G", ":",
    "A", "c", "m", "e", " ", "L", "t", "d", "\n", "E", "M", "A", "I", "L",
    ":", "j", "a", "n", "e", "@", "a", "c", "m", "e", ".", "c", "o", "m",
    "\n", "E", "N", "D", ":", "V", "C", "A", "R", "D">>

sHomeNetWiFi ==
  <<"W", "I", "F", "I", ":", "S", ":", "H", "o", "m", "e", "N", "e", "t",
    ";", "P", ":", "s", "e", "c", "r", "e", "t", "1", "2", "3", ";", "T",
    ":", "W", "P", "A", ";">>

sIndianMobile ==
  <<"+", "9", "1", "9", "8", "4", "8", "8", "0", "6", "0", "0", "6">>

LiteralPayloads == {sExampleUrl, sJaneVCard, sHomeNetWiFi, sIndianMobile}

\* the largest number of lines after the header of a generated vCard
MaxLines == 2

sUrlValue == sHttps \o <<"x">>

\* the lines of the generated vCards: known keys, a lower-case key, an
\* unknown key, a value with and without further colons, a line without colon
CardKeys == {<<"F", "N">>, <<"f", "n">>, <<"U", "R", "L">>, <<"T", "E", "L">>,
             <<"N", "O", "T", "E">>}

CardValues == {<<"x">>, sUrlValue}

CardLines == {k \o <<":">> \o v : k \in CardKeys, v \in CardValues} \cup {<<"x">>}

RECURSIVE JoinLines(_)
\* every line of ls preceded by a line break
JoinLines(ls) == IF ls = <<>> THEN <<>> ELSE <<"\n">> \o Head(ls) \o JoinLines(Tail(ls))

VCardPayloads == {sBEGINVCARD \o JoinLines(ls) : ls \in SeqsUpTo(CardLines, MaxLines)}

Payloads ==
  {Concat(ps) : ps \in SeqsUpTo(Pieces, MaxParts)} \cup LiteralPayloads \cup VCardPayloads

ClassifyInit ==
  /\ RunInit
  /\ jsQR
  /\ ZXing
  /\ payload \in Payloads
  /\ parsed = Unparsed(payload)
  /\ UploadIdle

classify ==
  /\ parsed.content_type = "unknown"
  /\ parsed' = parseQRContent(payload)
  /\ UNCHANGED <<runVars, camVars, batchVars, pixelVars, payload, extractVars, mergeVars>>

ClassifyNext == classify

ClassifySpec == ClassifyInit /\ [][ClassifyNext]_vars

---------------------------------------------------------------------------
(* Properties of the detection cascade *)

IsDecoderCall(c) == c.dec \in {"local", "remote"}

Hit(c) == IsDecoderCall(c) /\ c.out # <<>>

\* C1: every array detectQRCodes returns, on every return path, holds no two
\* entries with the same data.
C1_NoDuplicateData ==
  detectOutcome = "returned" =>
    \A j, k \in 1..Len(detectResult) :
      j # k => detectResult[j].data # detectResult[k].data

\* the local decoder found a code on the original image
Tier0Hit ==
  /\ Len(calls) >= 1
  /\ calls[1].dec = "local"
  /\ calls[1].img = 0
  /\ calls[1].out # <<>>

\* C2: when the local decoder finds a payload on the original image, the run
\* returns exactly that payload and calls neither preprocessImage nor any further
\* decoder (local on a transform, remote, backend).
C2_Tier0Stops ==
  Tier0Hit =>
    /\ ~prepInvoked
    /\ \A k \in 2..Len(calls) : calls[k].dec \notin {"local", "remote", "backend"}
    /\ detectOutcome # "rejected"
    /\ detectOutcome = "returned" => detectResult = calls[1].out

C2_Witness ==
  /\ Tier0Hit
  /\ detectOutcome = "returned"
  /\ pc = "idle"
  /\ frontResult.success

\* C3: Tier 1 tries the transforms in the order contrast, grayscale+contrast,
\* threshold, resize, and after a decode on a transform yields a payload no
\* decoder is called again: not on a later transform, not on the original image.
C3_Tier1OrderAndStop ==
  /\ preprocessedImages # <<>> =>
       preprocessedImages = <<"contrast", "grayscaleContrast", "threshold", "resize">>
  /\ \A j, k \in 1..Len(calls) :
       (j < k /\ IsDecoderCall(calls[j]) /\ IsDecoderCall(calls[k])
          /\ calls[j].img >= 1 /\ calls[k].img >= 1)
       => calls[j].img <= calls[k].img
  /\ \A j, k \in 1..Len(calls) :
       (j < k /\ Hit(calls[j]) /\ calls[j].img >= 1) => ~IsDecoderCall(calls[k])

C3_Witness ==
  /\ detectOutcome = "returned"
  /\ \E j \in 1..Len(calls) :
       /\ calls[j].dec = "local"
       /\ calls[j].img = 2
       /\ calls[j].out # <<>>
       /\ detectResult = calls[j].out

\* the local decoder finds a code on the third transform and found none before
OnlyThirdLocal(k) ==
  /\ calls[k].dec = "local"
  /\ calls[k].img = 3
  /\ calls[k].out # <<>>
  /\ \A j \in 1..(k - 1) : calls[j].dec = "local" => calls[j].out = <<>>

\* a remote call on a transformed image directly follows the local decoder
\* finding nothing on that image
LocalFirstPerImage ==
  \A k \in 1..Len(calls) :
    (calls[k].dec = "remote" /\ calls[k].img >= 1) =>
      /\ k > 1
      /\ calls[k - 1].dec = "local"
      /\ calls[k - 1].img = calls[k].img
      /\ calls[k - 1].out = <<>>

\* C4 as stated: local before remote on each transformed image, and no remote
\* call at all before the local attempt on the third transform when only that
\* transform is locally decodable.
C4_NoRemoteBeforeThirdLocal ==
  /\ LocalFirstPerImage
  /\ \A k \in 1..Len(calls) :
       OnlyThirdLocal(k) => \A j \in 1..(k - 1) : calls[j].dec # "remote"

\* C4 amended: local before remote on each transformed image; when only the third
\* transform is locally decodable, the remote calls made before the local attempt
\* on it are exactly those on the first and the second transform, and none is made
\* on the third transform or on the original image.
C4_LocalBeforeRemotePerImage ==
  /\ LocalFirstPerImage
  /\ \A k \in 1..Len(calls) :
       OnlyThirdLocal(k) =>
         /\ {calls[j].img : j \in {i \in 1..(k - 1) : calls[i].dec = "remote"}} = {1, 2}
         /\ \A j \in 1..Len(calls) :
              calls[j].dec = "remote" => calls[j].img \in {1, 2}

C4_Witness ==
  /\ detectOutcome = "returned"
  /\ \E k \in 1..Len(calls) : OnlyThirdLocal(k)

\* the remote calls on the original image
RemoteOnOriginal == {k \in 1..Len(calls) : calls[k].dec = "remote" /\ calls[k].img = 0}

\* Tier 0 ran and neither it nor any Tier 1 attempt produced a payload
Tiers01Empty ==
  /\ Len(calls) >= 1
  /\ calls[1].dec = "local"
  /\ calls[1].img = 0
  /\ \A k \in 1..Len(calls) :
       (calls[k].dec = "local" \/ (calls[k].dec = "remote" /\ calls[k].img >= 1))
       => calls[k].out = <<>>

\* C5: the remote decoder runs on the original image at most once per run, only
\* after Tier 0 and every Tier 1 attempt produced nothing, and in every run that
\* returns after they produced nothing.
C5_RemoteOnOriginalIff ==
  /\ Cardinality(RemoteOnOriginal) <= 1
  /\ \A k \in RemoteOnOriginal :
       /\ k > 1
       /\ \A j \in 1..(k - 1) : IsDecoderCall(calls[j]) /\ calls[j].out = <<>>
       /\ calls[1].dec = "local" /\ calls[1].img = 0
       /\ preprocessedImages # <<>> =>
            \A i \in 1..Len(preprocessedImages) :
              \E j \in 1..(k - 1) : calls[j].dec = "remote" /\ calls[j].img = i
  /\ detectOutcome = "returned" => (RemoteOnOriginal # {} <=> Tiers01Empty)

C5_Witness ==
  /\ detectOutcome = "returned"
  /\ RemoteOnOriginal # {}
  /\ preprocessedImages # <<>>
  /\ detectResult # <<>>

\* C6: detectQRCodes never rejects: it always resolves with a list.
C6_NeverRejects == detectOutcome # "rejected"

\* the last detectWithGoQRAPI call met a failure
RemoteFailed ==
  \/ lastRemote.met \in {"neterr", "non2xx"}
  \/ /\ lastRemote.met = "json"
     /\ \/ lastRemote.body.shape # "object"
        \/ ~lastRemote.body.success
        \/ lastRemote.body.qr_codes = <<>>

\* C7: a detectWithGoQRAPI call that met a network error, a non-2xx response, a
\* body that is not JSON or a body without a successful non-empty qr_codes list
\* returned the empty array, and no call threw.
C7_RemoteFailureReturnsEmpty ==
  /\ ~lastRemote.threw
  /\ RemoteFailed => lastRemote.value = <<>>

C7_Witness ==
  /\ lastRemote.met = "non2xx"
  /\ lastRemote.value = <<>>
  /\ pc = "t1local"

\* C8: every detectWithGoQRAPI call eventually completes.
C8_RemoteCallCompletes == (rpc # "none") ~> (rpc = "none")

\* C9: no remote decoder call and no enrichment call is started after stopScan
\* was called during the run.
C9_NoCallAfterStop ==
  \A k \in 1..Len(calls) :
    calls[k].dec \in {"remote", "enrich"} => ~calls[k].stopped

---------------------------------------------------------------------------
(* Properties of parseQRContent *)

\* the kinds of the specification for the content types of the source
KindOf(type) ==
  IF type \in {"linkedin", "social"} THEN "socialProfile"
  ELSE IF type = "text" THEN "plainText"
  ELSE type

\* the first rule that matches in the order vcard, wifi, sms, url, email, phone,
\* socialProfile, plainText
FirstMatch(p) ==
  IF StartsWith(p, sBEGINVCARD) THEN "vcard"
  ELSE IF StartsWith(p, sWIFI) THEN "wifi"
  ELSE IF StartsWith(p, sSms) THEN "sms"
  ELSE IF StartsWith(p, sHttp) \/ StartsWith(p, sHttps) \/ StartsWith(p, sWww) THEN "url"
  ELSE IF Includes(p, <<"@">>) /\ Includes(p, <<".">>) THEN "email"
  ELSE IF PhoneRegexTest(p) THEN "phone"
  ELSE IF Includes(p, sLinkedin) \/ FindPlatform(p) # 0 THEN "socialProfile"
  ELSE "plainText"

\* C10: parseQRContent returns the kind of the first rule that matches in the
\* order vcard, wifi, sms, url, email, phone, socialProfile, plainText.
C10_FirstMatchInSpecOrder ==
  parsed.content_type # "unknown" => KindOf(parsed.content_type) = FirstMatch(payload)

---------------------------------------------------------------------------
(* Properties of the classifier on the literal and the generated payloads *)

\* the record d has the field k, and its value is v
Has(d, k, v) == k \in DOMAIN d /\ d[k] = v

sJaneDoe == <<"J", "a", "n", "e", " ", "D", "o", "e">>
sAcmeLtd == <<"A", "c", "m", "e", " ", "L", "t", "d">>
sJaneEmail == <<"j", "a", "n", "e", "@", "a", "c", "m", "e", ".", "c", "o", "m">>
sHomeNet == <<"H", "o", "m", "e", "N", "e", "t">>
sSecret123 == <<"s", "e", "c", "r", "e", "t", "1", "2", "3">>
sWPA == <<"W", "P", "A">>

\* C11: the four literal payloads are classified url, vcard (with name
\* "Jane Doe", company "Acme Ltd", email "jane@acme.com"), wifi (with ssid
\* "HomeNet", password "secret123", security "WPA") and phone.
C11_LiteralPayloads ==
  parsed.content_type # "unknown" =>
    /\ payload = sExampleUrl => parsed.content_type = "url"
    /\ payload = sJaneVCard =>
         /\ parsed.content_type = "vcard"
         /\ Has(parsed.details, "name", sJaneDoe)
         /\ Has(parsed.details, "company", sAcmeLtd)
         /\ Has(parsed.details, "email", sJaneEmail)
    /\ payload = sHomeNetWiFi =>
         /\ parsed.content_type = "wifi"
         /\ Has(parsed.details, "ssid", sHomeNet)
         /\ Has(parsed.details, "password", sSecret123)
         /\ Has(parsed.details, "security", sWPA)
    /\ payload = sIndianMobile => parsed.content_type = "phone"

\* s begins with the header of a vCard, a WiFi credential or an SMS, or as a URL
StructuredOrUrl(s) ==
  \/ StartsWith(s, sBEGINVCARD) \/ StartsWith(s, sWIFI) \/ StartsWith(s, sSms)
  \/ StartsWith(s, sHttp) \/ StartsWith(s, sHttps) \/ StartsWith(s, sWww)

\* s has an '@' and, somewhere after it, a '.'
DotAfterAt(s) == \E i, j \in 1..Len(s) : i < j /\ s[i] = "@" /\ s[j] = "."

\* C12: a payload that matches none of the vcard, wifi, sms and url rules
\* is classified email exactly when it has an '@' with a '.' after it.
C12_EmailIffDotAfterAt ==
  (parsed.content_type # "unknown" /\ ~StructuredOrUrl(payload)) =>
    (parsed.content_type = "email" <=> DotAfterAt(payload))

\* the first position of a colon in line, or 0
ColonAt(line) ==
  LET at == {k \in 1..Len(line) : line[k] = ":"}
  IN  IF at = {} THEN 0 ELSE CHOOSE k \in at : \A j \in at : k <= j

\* the text of line before its first colon
KeyText(line) == SubSeq(line, 1, ColonAt(line) - 1)

\* the text of line after its first colon, further colons included
WholeValue(line) == SubSeq(line, ColonAt(line) + 1, Len(line))

CardFields == {"name", "company", "title", "email", "phone", "website", "address"}

\* the trimmed lines of the payload
CardLinesOf(s) == LET ls == Split(s, "\n") IN [k \in 1..Len(ls) |-> Trim(ls[k])]

\* the lines of ls that set the field f
LinesSetting(ls, f) ==
  {k \in 1..Len(ls) : ColonAt(ls[k]) # 0 /\ VCardField(ToUpperCase(KeyText(ls[k]))) = f}

\* C13: on a vCard, every KEY:VALUE line with a known key sets its field to
\* the whole text after the key's colon, and no other line adds a field.
C13_VCardWholeValue ==
  parsed.content_type = "vcard" =>
    LET ls == CardLinesOf(payload)
    IN  \A f \in CardFields :
          LET ks == LinesSetting(ls, f)
          IN  IF ks = {} THEN f \notin DOMAIN parsed.details
              ELSE LET last == CHOOSE k \in ks : \A j \in ks : j <= k
                   IN  Has(parsed.details, f, WholeValue(ls[last]))

DefinedKinds == {"url", "email", "phone", "vcard", "wifi", "sms", "linkedin", "social", "text"}

WiFiPartsOf(s) == Split(SubSeq(s, 6, Len(s)), ";")

\* the fields a record of kind rec.content_type carries for the payload s when
\* exactly the parts of s that parse are kept
ParsedFieldsOf(rec, s) ==
  CASE rec.content_type \in {"url", "email", "phone", "text"} -> {rec.content_type}
    [] rec.content_type \in {"linkedin", "social"} -> {"url", "platform"}
    [] rec.content_type = "vcard" ->
         {f \in CardFields : LinesSetting(CardLinesOf(s), f) # {}}
    [] rec.content_type = "wifi" ->
         LET ps == WiFiPartsOf(s)
         IN  {f \in {"ssid", "password", "security"} :
                \E k \in 1..Len(ps) : ColonAt(ps[k]) # 0 /\ WiFiField(KeyText(ps[k])) = f}
    [] rec.content_type = "sms" ->
         IF Cardinality({k \in 1..Len(s) : s[k] = ":"}) >= 2
         THEN {"phone", "message"} ELSE {"raw"}
    [] OTHER -> {}

\* C14: classify returns, for every payload, a record of a defined kind
\* (never unknown, never the error kind) that carries exactly the fields
\* that parse and the payload itself as raw data.
C14_ClassifyTotal ==
  [][classify =>
       /\ parsed'.content_type \in DefinedKinds
       /\ parsed'.raw_data = payload
       /\ DOMAIN parsed'.details = ParsedFieldsOf(parsed', payload)]_vars

\* a vCard with a line without colon, a WiFi payload without any part and an
\* SMS without message have been classified
Malformed(s) ==
  \/ StartsWith(s, sBEGINVCARD) /\ \E k \in 1..Len(CardLinesOf(s)) : ColonAt(CardLinesOf(s)[k]) = 0
  \/ StartsWith(s, sWIFI) /\ ParsedFieldsOf([content_type |-> "wifi"], s) = {}
  \/ StartsWith(s, sSms) /\ Cardinality({k \in 1..Len(s) : s[k] = ":"}) < 2

C14_Witness ==
  /\ parsed.content_type \in {"vcard", "wifi", "sms"}
  /\ Malformed(payload)
  /\ parsed.raw_data = payload

---------------------------------------------------------------------------
(* Regular expressions, matched as the backtracking engine matches them: a *)
(* pattern is a sequence of atoms, a greedy atom gives characters back one *)
(* at a time, and an alternation tries its branches in order               *)

LowerSet == {LowerLetters[k] : k \in 1..Len(LowerLetters)}
UpperSet == {UpperLetters[k] : k \in 1..Len(UpperLetters)}
Letters == LowerSet \cup UpperSet
\* the characters \w matches
WordChars == Letters \cup Digits \cup {"_"}

LowerChar(c) ==
  IF \E k \in 1..Len(UpperLetters) : UpperLetters[k] = c
  THEN LowerLetters[CHOOSE k \in 1..Len(UpperLetters) : UpperLetters[k] = c]
  ELSE c

\* String.prototype.toLowerCase
ToLowerCase(s) == [k \in 1..Len(s) |-> LowerChar(s[k])]

\* [set]{lo,hi}
Rep(set, lo, hi) ==
  [k |-> "cls", set |-> set, neg |-> FALSE, min |-> lo, max |-> hi, many |-> FALSE]
\* [set]{lo,}
AtLeast(set, lo) ==
  [k |-> "cls", set |-> set, neg |-> FALSE, min |-> lo, max |-> lo, many |-> TRUE]
One(set) == Rep(set, 1, 1)
Opt(set) == Rep(set, 0, 1)
Plus(set) == AtLeast(set, 1)
Star(set) == AtLeast(set, 0)
\* [^set]+ and [^set]*
NotPlus(set) == [Plus(set) EXCEPT !.neg = TRUE]
NotStar(set) == [Star(set) EXCEPT !.neg = TRUE]
\* (?:a|b|...) with every branch a pattern
Alt(branches) == [k |-> "alt", branches |-> branches]
\* ^, $ and \b
AtStart == [k |-> "start"]
AtEnd == [k |-> "end"]
WordBoundary == [k |-> "wordb"]

\* a literal word, and the same under the i flag
Lit(word) == [j \in 1..Len(word) |-> One({word[j]})]
LitCI(word) == [j \in 1..Len(word) |-> One({LowerChar(word[j]), UpperChar(word[j])})]

InClass(c, a) == IF a.neg THEN c \notin a.set ELSE c \in a.set

RECURSIVE RunLen(_, _, _, _)
\* how many characters from position i on the atom a can take, n already taken
RunLen(s, i, a, n) ==
  IF (a.many \/ n < a.max) /\ i + n <= Len(s) /\ InClass(s[i + n], a)
  THEN RunLen(s, i, a, n + 1)
  ELSE n

IsWordAt(s, i) == i >= 1 /\ i <= Len(s) /\ s[i] \in WordChars

RECURSIVE MatchAt(_, _, _)
RECURSIVE TryLen(_, _, _, _, _)
RECURSIVE TryBranch(_, _, _, _, _)

\* the atoms matched from position i on: the position after the match, or 0
MatchAt(s, i, atoms) ==
  IF atoms = <<>> THEN i
  ELSE LET a == Head(atoms)
           rest == Tail(atoms)
       IN  CASE a.k = "cls" -> TryLen(s, i, a, rest, RunLen(s, i, a, 0))
             [] a.k = "alt" -> TryBranch(s, i, a.branches, rest, 1)
             [] a.k = "start" -> IF i = 1 THEN MatchAt(s, i, rest) ELSE 0
             [] a.k = "end" -> IF i = Len(s) + 1 THEN MatchAt(s, i, rest) ELSE 0
             [] a.k = "wordb" ->
                  IF IsWordAt(s, i - 1) # IsWordAt(s, i) THEN MatchAt(s, i, rest) ELSE 0

\* the greedy atom a takes n characters, then fewer, down to its minimum
TryLen(s, i, a, rest, n) ==
  IF n < a.min THEN 0
  ELSE LET r == MatchAt(s, i + n, rest)
       IN  IF r # 0 THEN r ELSE TryLen(s, i, a, rest, n - 1)

\* the branches of an alternation from the j-th on, in order
TryBranch(s, i, branches, rest, j) ==
  IF j > Len(branches) THEN 0
  ELSE LET r == MatchAt(s, i, branches[j] \o rest)
       IN  IF r # 0 THEN r ELSE TryBranch(s, i, branches, rest, j + 1)

NoMatch == [start |-> 0, end |-> 0]

RECURSIVE ExecFrom(_, _, _)
\* the leftmost match that starts at position i or later
ExecFrom(s, atoms, i) ==
  IF i > Len(s) + 1 THEN NoMatch
  ELSE LET e == MatchAt(s, i, atoms)
       IN  IF e # 0 THEN [start |-> i, end |-> e] ELSE ExecFrom(s, atoms, i + 1)

\* String.prototype.match: the first match (matches[0] under the g flag)
RegexMatch(s, atoms) == ExecFrom(s, atoms, 1)

\* match[0]
MatchText(s, m) == SubSeq(s, m.start, m.end - 1)

RECURSIVE ReplaceFrom(_, _, _, _)
\* String.prototype.replace under the g flag, from position i on
ReplaceFrom(s, atoms, by, i) ==
  LET m == ExecFrom(s, atoms, i)
  IN  IF m = NoMatch THEN SubSeq(s, i, Len(s))
      ELSE IF m.end = m.start
      THEN IF m.start > Len(s) THEN SubSeq(s, i, Len(s)) \o by
           ELSE SubSeq(s, i, m.start - 1) \o by \o <<s[m.start]>>
                \o ReplaceFrom(s, atoms, by, m.start + 1)
      ELSE SubSeq(s, i, m.start - 1) \o by \o ReplaceFrom(s, atoms, by, m.end)

ReplaceAll(s, atoms, by) == ReplaceFrom(s, atoms, by, 1)

\* String.prototype.replace without the g flag: the first match only
ReplaceFirst(s, atoms, by) ==
  LET m == RegexMatch(s, atoms)
  IN  IF m = NoMatch THEN s
      ELSE SubSeq(s, 1, m.start - 1) \o by \o SubSeq(s, m.end, Len(s))

---------------------------------------------------------------------------
(* The patterns of the field extractors *)

\* [\s\-]
Separators == WhiteSpace \cup {"-"}

\* /\s+/g
spacePattern == <<Plus(WhiteSpace)>>

\* /[a-zA-Z0-9._%+-]+@[a-zA-Z0-9.-]+\.[a-zA-Z]{2,}/
emailPattern ==
  <<Plus(Letters \cup Digits \cup {".", "_", "%", "+", "-"}), One({"@"}),
    Plus(Letters \cup Digits \cup {".", "-"}), One({"."}), AtLeast(Letters, 2)>>

\* \+?91[\s\-]?
prefix91 == <<Opt({"+"}), One({"9"}), One({"1"}), Opt(Separators)>>

\* [6-9]\d{9}
mobileDigits == <<One({"6", "7", "8", "9"}), Rep(Digits, 9, 9)>>

\* \d{2,3}[\s\-]?\d{7,8}
landlineDigits == <<Rep(Digits, 2, 3), Opt(Separators), Rep(Digits, 7, 8)>>

\* the four phonePatterns, in the order of the array
phonePatterns ==
  << prefix91 \o mobileDigits,
     <<One({"M"}), Star(WhiteSpace)>> \o prefix91 \o mobileDigits,
     LitCI(<<"T", "e", "l">>) \o <<Star(WhiteSpace \cup {":"})>> \o prefix91 \o landlineDigits,
     prefix91 \o landlineDigits >>

\* /^(Tel[:\s]*|M\s*)/i
labelPattern ==
  <<AtStart,
    Alt(<< LitCI(<<"T", "e", "l">>) \o <<Star(WhiteSpace \cup {":"})>>,
           LitCI(<<"M">>) \o <<Star(WhiteSpace)>> >>)>>

\* /(https?:\/\/[^\s]+|www\.[^\s]+)/i
websitePattern ==
  <<Alt(<< LitCI(<<"h", "t", "t", "p">>) \o <<Opt({"s", "S"})>> \o Lit(<<":", "/", "/">>)
             \o <<NotPlus(WhiteSpace)>>,
           LitCI(<<"w", "w", "w">>) \o Lit(<<".">>) \o <<NotPlus(WhiteSpace)>> >>)>>

\* [A-Z][a-z]+
capitalized == <<One(UpperSet), Plus(LowerSet)>>

\* /^([A-Z][a-z]+\s+[A-Z][a-z]+)$/
firstLastPattern ==
  <<AtStart>> \o capitalized \o <<Plus(WhiteSpace)>> \o capitalized \o <<AtEnd>>

\* /^([A-Z][a-z]+\s+[A-Z][a-z]+\s+[A-Z][a-z]+)$/
firstMiddleLastPattern ==
  <<AtStart>> \o capitalized \o <<Plus(WhiteSpace)>> \o capitalized
    \o <<Plus(WhiteSpace)>> \o capitalized \o <<AtEnd>>

\* the namePatterns of the scan view, in the order of the array
namePatterns ==
  << <<AtStart>> \o capitalized \o <<Plus(WhiteSpace)>> \o capitalized
       \o <<Alt(<< <<Plus(WhiteSpace)>> \o capitalized, <<>> >>)>>,
     <<AtStart>> \o capitalized \o <<Plus(WhiteSpace), One(UpperSet)>> >>

companyKeywords ==
<<
   <<"l", "t", "d">>,
   <<"i", "n", "c">>,
   <<"c", "o", "r", "p">>,
   <<"c", "o", "m", "p", "a", "n", "y">>,
   <<"s", "e", "r", "v", "i", "c", "e", "s">>,
   <<"t", "e", "c", "h", "n", "o", "l", "o", "g", "i", "e", "s">>,
   <<"s", "o", "l", "u", "t", "i", "o", "n", "s">>,
   <<"s", "y", "s", "t", "e", "m", "s">>,
   <<"i", "n", "f", "o", "t", "e", "c", "h">>,
   <<"e", "n", "t", "e", "r", "p", "r", "i", "s", "e">>,
   <<"g", "r", "o", "u", "p">>,
   <<"h", "o", "l", "d", "i", "n", "g", "s">>,
   <<"p", "r", "i", "v", "a", "t", "e">>,
   <<"p", "v", "t">>
>>

titleKeywords ==
<<
   <<"m", "a", "n", "a", "g", "e", "r">>,
   <<"a", "n", "a", "l", "y", "s", "t">>,
   <<"e", "n", "g", "i", "n", "e", "e", "r">>,
   <<"d", "e", "v", "e", "l", "o", "p", "e", "r">>,
   <<"d", "i", "r", "e", "c", "t", "o", "r">>,
   <<"p", "r", "e", "s", "i", "d", "e", "n", "t">>,
   <<"c", "e", "o">>,
   <<"c", "t", "o">>,
   <<"v", "p">>,
   <<"d", "e", "s", "i", "g", "n", "e", "r">>,
   <<"c", "o", "o", "r", "d", "i", "n", "a", "t", "o", "r">>,
   <<"a", "s", "s", "i", "s", "t", "a", "n", "t">>,
   <<"s", "p", "e", "c", "i", "a", "l", "i", "s", "t">>,
   <<"c", "o", "n", "s", "u", "l", "t", "a", "n", "t">>,
   <<"e", "x", "e", "c", "u", "t", "i", "v", "e">>
>>

\* the one pattern of titlePatterns, under the i flag
titlePatterns ==
  << <<Alt(<<
         LitCI(<<"S", "y", "s", "t", "e", "m", "s">>) \o <<Plus(WhiteSpace)>> \o LitCI(<<"A", "n", "a", "l", "y", "s", "t">>),
         LitCI(<<"P", "r", "o", "j", "e", "c", "t">>) \o <<Plus(WhiteSpace)>> \o LitCI(<<"M", "a", "n", "a", "g", "e", "r">>),
         LitCI(<<"S", "o", "f", "t", "w", "a", "r", "e">>) \o <<Plus(WhiteSpace)>> \o LitCI(<<"E", "n", "g", "i", "n", "e", "e", "r">>),
         LitCI(<<"S", "e", "n", "i", "o", "r">>) \o <<Plus(WhiteSpace)>> \o LitCI(<<"D", "e", "v", "e", "l", "o", "p", "e", "r">>),
         LitCI(<<"T", "e", "a", "m">>) \o <<Plus(WhiteSpace)>> \o LitCI(<<"L", "e", "a", "d">>),
         LitCI(<<"D", "i", "r", "e", "c", "t", "o", "r">>),
         LitCI(<<"M", "a", "n", "a", "g", "e", "r">>),
         LitCI(<<"A", "n", "a", "l", "y", "s", "t">>),
         LitCI(<<"E", "n", "g", "i", "n", "e", "e", "r">>),
         LitCI(<<"D", "e", "v", "e", "l", "o", "p", "e", "r">>),
         LitCI(<<"C", "o", "n", "s", "u", "l", "t", "a", "n", "t">>),
         LitCI(<<"S", "p", "e", "c", "i", "a", "l", "i", "s", "t">>),
         LitCI(<<"E", "x", "e", "c", "u", "t", "i", "v", "e">>),
         LitCI(<<"P", "r", "e", "s", "i", "d", "e", "n", "t">>),
         LitCI(<<"C", "E", "O">>),
         LitCI(<<"C", "T", "O">>),
         LitCI(<<"V", "P">>),
         LitCI(<<"D", "e", "s", "i", "g", "n", "e", "r">>),
         LitCI(<<"C", "o", "o", "r", "d", "i", "n", "a", "t", "o", "r">>),
         LitCI(<<"A", "s", "s", "i", "s", "t", "a", "n", "t">>) >>)>> >>

\* the companyPatterns, under the i flag
companyPatterns ==
  << <<One(Letters), Plus(Letters \cup WhiteSpace \cup {"&"}),
       Alt(<<
         LitCI(<<"L", "t", "d">>),
         LitCI(<<"I", "n", "c">>),
         LitCI(<<"C", "o", "r", "p">>),
         LitCI(<<"C", "o", "m", "p", "a", "n", "y">>),
         LitCI(<<"S", "e", "r", "v", "i", "c", "e", "s">>),
         LitCI(<<"T", "e", "c", "h", "n", "o", "l", "o", "g", "i", "e", "s">>),
         LitCI(<<"S", "o", "l", "u", "t", "i", "o", "n", "s">>),
         LitCI(<<"S", "y", "s", "t", "e", "m", "s">>),
         LitCI(<<"C", "o", "m", "p", "u", "t", "e", "r">>),
         LitCI(<<"S", "o", "f", "t", "w", "a", "r", "e">>),
         LitCI(<<"T", "e", "c", "h">>),
         LitCI(<<"G", "r", "o", "u", "p">>),
         LitCI(<<"H", "o", "l", "d", "i", "n", "g", "s">>),
         LitCI(<<"E", "n", "t", "e", "r", "p", "r", "i", "s", "e", "s">>),
         LitCI(<<"P", "r", "i", "v", "a", "t", "e">>),
         LitCI(<<"P", "v", "t">>) >>)>>,
     LitCI(<<"S", "a", "t", "y", "a", "m">>) \o <<Plus(WhiteSpace)>> \o LitCI(<<"C", "o", "m", "p", "u", "t", "e", "r">>) \o <<Plus(WhiteSpace)>> \o LitCI(<<"S", "e", "r", "v", "i", "c", "e", "s">>) \o <<Plus(WhiteSpace)>> \o LitCI(<<"L", "t", "d">>) >>

\* the addressPatterns, under the i flag
addressPatterns ==
  << <<Plus(Letters \cup WhiteSpace),
       Alt(<<
         LitCI(<<"T", "o", "w", "e", "r">>) \o <<Opt({"s", "S"})>>,
         LitCI(<<"B", "u", "i", "l", "d", "i", "n", "g">>),
         LitCI(<<"C", "o", "m", "p", "l", "e", "x">>),
         LitCI(<<"R", "o", "a", "d">>),
         LitCI(<<"S", "t", "r", "e", "e", "t">>),
         LitCI(<<"A", "v", "e", "n", "u", "e">>),
         LitCI(<<"L", "a", "n", "e">>),
         LitCI(<<"C", "o", "l", "o", "n", "y">>),
         LitCI(<<"N", "a", "g", "a", "r">>),
         LitCI(<<"A", "r", "e", "a">>),
         LitCI(<<"V", "i", "l", "l", "a", "g", "e">>),
         LitCI(<<"T", "o", "w", "n">>),
         LitCI(<<"C", "i", "t", "y">>),
         LitCI(<<"S", "t", "a", "t", "e">>),
         LitCI(<<"C", "o", "u", "n", "t", "r", "y">>) >>)>>,
     LitCI(<<"O", "h", "r", "i">>) \o <<Plus(WhiteSpace)>> \o LitCI(<<"T", "o", "w", "e", "r">>) \o <<Opt({"s", "S"})>> \o <<NotStar({","})>>,
     LitCI(<<"S", "e", "b", "a", "s", "t", "i", "a", "n">>) \o <<Plus(WhiteSpace)>> \o LitCI(<<"R", "o", "a", "d">>) \o <<NotStar({","})>> >>

\* /\d{2,3}[\s\-]?\d{7,8}/g, the phone shape taken out of an address
phoneShape == landlineDigits

\* /\b\d{6}\b/
pincodePattern == <<WordBoundary, Rep(Digits, 6, 6), WordBoundary>>

sPincodeLabel == <<"P", "i", "n", "c", "o", "d", "e", ":", " ">>

---------------------------------------------------------------------------
(* The field extractors: extractTextFromRawText of the upload view and     *)
(* extractTextInfoEnhanced of the scan view, which differ in the name rule *)

\* text.replace(/\s+/g, ' ').trim()
CleanText(t) == Trim(ReplaceAll(t, spacePattern, <<" ">>))

\* 1. email: the first match, if any
WithEmail(inf, cleanedText) ==
  LET m == RegexMatch(cleanedText, emailPattern)
  IN  IF m # NoMatch THEN Put(inf, "email", MatchText(cleanedText, m)) ELSE inf

\* the two replace calls on a phone candidate
CleanPhone(phone) == ReplaceAll(ReplaceFirst(phone, labelPattern, <<>>), spacePattern, <<>>)

RECURSIVE PhoneLoop(_, _, _)
\* 2. phone: the for loop over phonePatterns from the k-th pattern on
PhoneLoop(inf, cleanedText, k) ==
  IF k > Len(phonePatterns) THEN inf
  ELSE LET m == RegexMatch(cleanedText, phonePatterns[k])
           phone == CleanPhone(Trim(MatchText(cleanedText, m)))
       IN  IF m # NoMatch /\ Len(phone) >= 10
           THEN Put(inf, "phone", phone)
           ELSE PhoneLoop(inf, cleanedText, k + 1)

\* 3. website: the first match, if any
WithWebsite(inf, cleanedText) ==
  LET m == RegexMatch(cleanedText, websitePattern)
  IN  IF m # NoMatch THEN Put(inf, "website", MatchText(cleanedText, m)) ELSE inf

\* some keyword of the list occurs in lowerText
SomeKeyword(keywords, lowerText) ==
  \E k \in 1..Len(keywords) : Includes(lowerText, keywords[k])

isCompanyOrTitle(t) ==
  LET lowerText == ToLowerCase(t)
  IN  SomeKeyword(companyKeywords, lowerText) \/ SomeKeyword(titleKeywords, lowerText)

RECURSIVE NonEmptyLines(_)
\* .map(line => line.trim()).filter(line => line.length > 0)
NonEmptyLines(ls) ==
  IF ls = <<>> THEN <<>>
  ELSE IF Trim(Head(ls)) = <<>> THEN NonEmptyLines(Tail(ls))
  ELSE <<Trim(Head(ls))>> \o NonEmptyLines(Tail(ls))

RECURSIVE NameLoop(_, _)
\* 4. name in the upload view: the for loop over the lines
NameLoop(inf, lines) ==
  IF lines = <<>> THEN inf
  ELSE LET line == Head(lines)
           firstLastMatch == RegexMatch(line, firstLastPattern)
           firstMiddleLastMatch == RegexMatch(line, firstMiddleLastPattern)
       IN  IF firstLastMatch # NoMatch /\ ~isCompanyOrTitle(MatchText(line, firstLastMatch))
           THEN Put(inf, "name", MatchText(line, firstLastMatch))
           ELSE IF /\ firstMiddleLastMatch # NoMatch
                   /\ ~isCompanyOrTitle(MatchText(line, firstMiddleLastMatch))
           THEN Put(inf, "name", MatchText(line, firstMiddleLastMatch))
           ELSE NameLoop(inf, Tail(lines))

\* the lines the upload view looks for a name in: the cleaned text split at "\n"
WithNameByLine(inf, cleanedText) == NameLoop(inf, NonEmptyLines(Split(cleanedText, "\n")))

\* the largest length of a name the scan view accepts, exclusive
NameLimit == 50

\* the inline validation of the scan view
scanNameKeywords ==
  << <<"l", "t", "d">>, <<"i", "n", "c">>, <<"c", "o", "r", "p">>,
     <<"a", "n", "a", "l", "y", "s", "t">>, <<"m", "a", "n", "a", "g", "e", "r">> >>

RECURSIVE NamePatternLoop(_, _, _)
\* 4. name in the scan view: the for loop over namePatterns from the k-th on
NamePatternLoop(inf, cleanedText, k) ==
  IF k > Len(namePatterns) THEN inf
  ELSE LET m == RegexMatch(cleanedText, namePatterns[k])
           potentialName == Trim(MatchText(cleanedText, m))
       IN  IF /\ m # NoMatch
              /\ ~SomeKeyword(scanNameKeywords, ToLowerCase(potentialName))
              /\ Len(potentialName) < NameLimit
           THEN Put(inf, "name", potentialName)
           ELSE NamePatternLoop(inf, cleanedText, k + 1)

RECURSIVE FirstOf(_, _, _, _)
\* the loops of 5. title and 6. company: the trimmed first match of the first
\* pattern that matches sets the field
FirstOf(inf, field, cleanedText, patterns) ==
  IF patterns = <<>> THEN inf
  ELSE LET m == RegexMatch(cleanedText, Head(patterns))
       IN  IF m # NoMatch THEN Put(inf, field, Trim(MatchText(cleanedText, m)))
           ELSE FirstOf(inf, field, cleanedText, Tail(patterns))

\* the replace calls on an address candidate
CleanAddress(address) ==
  Trim(ReplaceAll(ReplaceAll(address, phoneShape, <<>>), spacePattern, <<" ">>))

\* the least length of an accepted address, exclusive
AddressLimit == 10

RECURSIVE AddressLoop(_, _, _)
\* 7. address: the for loop over addressPatterns from the k-th pattern on
AddressLoop(inf, cleanedText, k) ==
  IF k > Len(addressPatterns) THEN inf
  ELSE LET m == RegexMatch(cleanedText, addressPatterns[k])
           address == CleanAddress(Trim(MatchText(cleanedText, m)))
       IN  IF m # NoMatch /\ Len(address) > AddressLimit
           THEN Put(inf, "address", address)
           ELSE AddressLoop(inf, cleanedText, k + 1)

\* 8. pincode: pushed onto otherInfo
WithPincode(inf, cleanedText) ==
  LET m == RegexMatch(cleanedText, pincodePattern)
  IN  IF m # NoMatch
      THEN Put(inf, "otherInfo",
               Append(inf.otherInfo, sPincodeLabel \o MatchText(cleanedText, m)))
      ELSE inf

\* the rules the two extractors share, after the name rule
AfterName(inf, cleanedText) ==
  WithPincode(
    AddressLoop(
      FirstOf(FirstOf(inf, "title", cleanedText, titlePatterns),
              "company", cleanedText, companyPatterns),
      cleanedText, 1),
    cleanedText)

\* the rules the two extractors share, before the name rule
BeforeName(cleanedText) ==
  WithWebsite(PhoneLoop(WithEmail(EmptyInfo, cleanedText), cleanedText, 1), cleanedText)

extractTextFromRawText(t) ==
  IF t = <<>> THEN EmptyInfo
  ELSE LET cleanedText == CleanText(t)
       IN  AfterName(WithNameByLine(BeforeName(cleanedText), cleanedText), cleanedText)

extractTextInfoEnhanced(t) ==
  IF t = <<>> THEN EmptyInfo
  ELSE LET cleanedText == CleanText(t)
       IN  AfterName(NamePatternLoop(BeforeName(cleanedText), cleanedText, 1), cleanedText)

---------------------------------------------------------------------------
(* The extractors as steps, on texts put together from a few lines *)

\* the largest number of lines of a generated text
MaxTextLines == 2

sLineName ==
  <<"J", "o", "h", "n", " ", "D", "o", "e">>

sLineCompany ==
  <<"A", "c", "m", "e", " ", "L", "t", "d">>

sLineTitle ==
  <<"P", "r", "o", "j", "e", "c", "t", " ", "M", "a", "n", "a", "g", "e", "r">>

sLineTel ==
  <<"T", "e", "l", ":", " ", "9", "1", "-", "4", "0", "-", "5", "5", "3",
    "1", "6", "6", "6", "6">>

sLineAddress ==
  <<"O", "h", "r", "i", " ", "T", "o", "w", "e", "r", "s", ",", " ", "R",
    "o", "a", "d", " ", "N", "o", ".", " ", "2", ",", " ", "5", "0", "0",
    "0", "3", "4">>

sLineDigits ==
  <<"O", "h", "r", "i", " ", "T", "o", "w", "e", "r", " ", "1", "2", "3",
    "4", "0", "-", "5", "5", "3", "1", "6", "6", "6", "6", "-", "1", "2",
    "3", "4", "5", "6", "7">>

sLineEmail ==
  <<"a", "@", "b", ".", "c", "o", " ", "w", "w", "w", ".", "x", ".", "y">>

\* the text the specification isolates the phone and the address of
sIsolationText ==
  <<"M", " ", "+", "9", "1", " ", "9", "8", "4", "8", "8", "0", "6", "0",
    "0", "6", " ", "T", "e", "l", ":", " ", "9", "1", "-", "4", "0", "-",
    "5", "5", "3", "1", "6", "6", "6", "6", " ", "O", "h", "r", "i", " ",
    "T", "o", "w", "e", "r", "s", ",", " ", "R", "o", "a", "d", " ", "N",
    "o", ".", " ", "2", ",", " ", "5", "0", "0", "0", "3", "4">>

TextLines ==
  {sLineName, sLineCompany, sLineTitle, sLineTel, sLineAddress, sLineDigits,
   sLineEmail}

RECURSIVE JoinWith(_, _)
\* Array.prototype.join
JoinWith(ls, sep) ==
  IF ls = <<>> THEN <<>>
  ELSE IF Len(ls) = 1 THEN Head(ls)
  ELSE Head(ls) \o sep \o JoinWith(Tail(ls), sep)

\* no line occurs twice in ls
Distinct(ls) == \A j, k \in 1..Len(ls) : ls[j] = ls[k] => j = k

Texts ==
  {JoinWith(ls, <<"\n">>) : ls \in {q \in SeqsUpTo(TextLines, MaxTextLines) : Distinct(q)}}
    \cup {sIsolationText}

ExtractInit ==
  /\ RunInit
  /\ jsQR
  /\ ZXing
  /\ payload = <<>>
  /\ parsed = Unparsed(<<>>)
  /\ text \in Texts
  /\ info = EmptyInfo
  /\ extractedBy = "none"
  /\ result = NoObject
  /\ saved = NoObject

\* the upload view extracts the fields of the text
extractUpload ==
  /\ extractedBy = "none"
  /\ info' = extractTextFromRawText(text)
  /\ extractedBy' = "upload"
  /\ UNCHANGED <<runVars, camVars, batchVars, pixelVars, payload, parsed, text, mergeVars>>

\* the scan view extracts the fields of the text
extractScan ==
  /\ extractedBy = "none"
  /\ info' = extractTextInfoEnhanced(text)
  /\ extractedBy' = "scan"
  /\ UNCHANGED <<runVars, camVars, batchVars, pixelVars, payload, parsed, text, mergeVars>>

ExtractNext == extractUpload \/ extractScan

ExtractSpec == ExtractInit /\ [][ExtractNext]_vars

---------------------------------------------------------------------------
(* Properties of the field extractors *)

InfoFields == {"name", "title", "company", "phone", "email", "website", "address"}

\* s is a string
IsString(s) == DOMAIN s = 1..Len(s) /\ \A k \in 1..Len(s) : s[k] \in STRING

\* some character of s is in the set
HasChar(s, set) == \E k \in 1..Len(s) : s[k] \in set

\* C15: for every text, the empty one included, each extractor returns a
\* record with the seven named fields and otherInfo, all of them strings
\* (otherInfo a sequence of strings), and a field whose rule cannot match the
\* text is empty.
C15_ExtractorTotal ==
  extractedBy # "none" =>
    /\ DOMAIN info = InfoFields \cup {"otherInfo"}
    /\ \A f \in InfoFields : IsString(info[f])
    /\ \A k \in 1..Len(info.otherInfo) : IsString(info.otherInfo[k])
    /\ text = <<>> => info = EmptyInfo
    /\ ~HasChar(text, {"@"}) => info.email = <<>>
    /\ ~Includes(text, <<"9", "1">>) => info.phone = <<>>
    /\ (~Includes(ToLowerCase(text), <<"w", "w", "w", ".">>)
          /\ ~Includes(ToLowerCase(text), <<"h", "t", "t", "p">>))
         => info.website = <<>>
    /\ ~HasChar(text, UpperSet) => info.name = <<>>
    /\ (~SomeKeyword(titleKeywords, ToLowerCase(text))
          /\ ~Includes(ToLowerCase(text), <<"l", "e", "a", "d">>))
         => info.title = <<>>
    /\ ~HasChar(text, Letters) => info.company = <<>> /\ info.address = <<>>
    /\ Cardinality({k \in 1..Len(text) : text[k] \in Digits}) < 6 => info.otherInfo = <<>>

\* an extractor ran on a text that has a phone number and no email address
C15_Witness ==
  /\ extractedBy # "none"
  /\ text # <<>>
  /\ info.phone # <<>>
  /\ info.email = <<>>
  /\ info.otherInfo = <<>>

\* C16: for every text, the isolation text of the specification included, the
\* extracted phone has no letter (no 'M', no 'Tel') and the extracted address
\* has no digit run of the phone shape.
C16_PhoneAndAddressIsolated ==
  extractedBy = "upload" =>
    /\ ~HasChar(info.phone, Letters)
    /\ RegexMatch(info.address, phoneShape) = NoMatch

\* the line is two or three capitalized words and has no company or title keyword
IsNameLine(line) ==
  /\ \/ RegexMatch(line, firstLastPattern) # NoMatch
     \/ RegexMatch(line, firstMiddleLastPattern) # NoMatch
  /\ ~isCompanyOrTitle(line)

\* the lines of the text as it came in, trimmed, in line-break order
InputLines(t) == LET ls == Split(t, "\n") IN [k \in 1..Len(ls) |-> Trim(ls[k])]

\* C17: the extracted name of a text is its first line of two or three
\* capitalized words without company or title keyword, and it is empty only if
\* the text has no such line.
C17_NameIsFirstNameLine ==
  extractedBy = "upload" =>
    LET ls == InputLines(text)
        ks == {k \in 1..Len(ls) : IsNameLine(ls[k])}
    IN  IF ks = {} THEN info.name = <<>>
        ELSE info.name = ls[CHOOSE k \in ks : \A j \in ks : k <= j]

---------------------------------------------------------------------------
(* saveToDatabase of the upload view: the structured data of a result and  *)
(* its merge with what the extractor finds in the raw text                 *)

\* obj[k], with undefined read as the empty value
Get(obj, k) == IF k \in DOMAIN obj THEN obj[k] ELSE <<>>

\* a || b
OrElse(a, b) == IF a # <<>> THEN a ELSE b

\* obj && Object.keys(obj).length > 0
HasKeys(obj) == DOMAIN obj # {}

sFileUpload ==
  <<"f", "i", "l", "e", "_", "u", "p", "l", "o", "a", "d">>

sBatchOcr ==
  <<"b", "a", "t", "c", "h", "_", "o", "c", "r">>

\* the properties every structuredData literal ends with
Provenance(res) ==
  [source |-> sFileUpload,
   processing_method |-> OrElse(OrElse(Get(res, "engine_used"), Get(res, "engine")), sBatchOcr),
   confidence_score |-> OrElse(OrElse(Get(res, "confidence"), Get(res, "confidence_score")), 0),
   raw_text |-> OrElse(OrElse(Get(res, "raw_text"), Get(res, "text")), <<>>)]

\* the structuredData literal built from result.structuredInfo or result.structured_data
FromObject(obj, res) ==
  LET p == Provenance(res)
  IN  [name |-> OrElse(Get(obj, "name"), <<>>), title |-> OrElse(Get(obj, "title"), <<>>),
       company |-> OrElse(Get(obj, "company"), <<>>), phone |-> OrElse(Get(obj, "phone"), <<>>),
       email |-> OrElse(Get(obj, "email"), <<>>), website |-> OrElse(Get(obj, "website"), <<>>),
       address |-> OrElse(Get(obj, "address"), <<>>),
       other_info |-> OrElse(Get(obj, "otherInfo"), <<>>),
       source |-> p.source, processing_method |-> p.processing_method,
       confidence_score |-> p.confidence_score, raw_text |-> p.raw_text]

\* result.k || result.extracted_k || ''
Either(res, k, extractedK) == OrElse(OrElse(Get(res, k), Get(res, extractedK)), <<>>)

\* the structuredData literal built from the properties of result itself
FromResult(res) ==
  LET p == Provenance(res)
  IN  [name |-> Either(res, "name", "extracted_name"),
       title |-> Either(res, "title", "extracted_title"),
       company |-> Either(res, "company", "extracted_company"),
       phone |-> Either(res, "phone", "extracted_phone"),
       email |-> Either(res, "email", "extracted_email"),
       website |-> Either(res, "website", "extracted_website"),
       address |-> Either(res, "address", "extracted_address"),
       other_info |-> Either(res, "other_info", "extracted_other_info"),
       source |-> p.source, processing_method |-> p.processing_method,
       confidence_score |-> p.confidence_score, raw_text |-> p.raw_text]

\* let structuredData, as the if / else-if / else assigns it
StructuredData(res) ==
  IF HasKeys(Get(res, "structuredInfo")) THEN FromObject(res.structuredInfo, res)
  ELSE IF HasKeys(Get(res, "structured_data")) THEN FromObject(res.structured_data, res)
  ELSE FromResult(res)

\* the condition under which saveToDatabase calls the extractor
NeedsExtraction(sd) ==
  sd.name = <<>> /\ sd.email = <<>> /\ sd.phone = <<>> /\ sd.raw_text # <<>>

\* a merge in which the extractor's value comes first
ExtractorFirst(sd, extractedInfo) ==
  [sd EXCEPT !.name = OrElse(extractedInfo.name, sd.name),
             !.title = OrElse(extractedInfo.title, sd.title),
             !.company = OrElse(extractedInfo.company, sd.company),
             !.phone = OrElse(extractedInfo.phone, sd.phone),
             !.email = OrElse(extractedInfo.email, sd.email),
             !.website = OrElse(extractedInfo.website, sd.website),
             !.address = OrElse(extractedInfo.address, sd.address),
             !.other_info = IF Len(sd.other_info) > 0 THEN sd.other_info
                            ELSE extractedInfo.otherInfo]

\* const finalStructuredData
FinalStructuredData(sd, extractedInfo) ==
  [sd EXCEPT !.name = OrElse(sd.name, extractedInfo.name),
             !.title = OrElse(sd.title, extractedInfo.title),
             !.company = OrElse(sd.company, extractedInfo.company),
             !.phone = OrElse(sd.phone, extractedInfo.phone),
             !.email = OrElse(sd.email, extractedInfo.email),
             !.website = OrElse(sd.website, extractedInfo.website),
             !.address = OrElse(sd.address, extractedInfo.address),
             !.other_info = IF Len(sd.other_info) > 0 THEN sd.other_info
                            ELSE extractedInfo.otherInfo]

---------------------------------------------------------------------------
(* saveToDatabase as a step, on results of the three shapes the backend's  *)
(* answer can have                                                         *)

\* the value of a field the structured source provides
sGiven ==
  <<"g", "i", "v", "e", "n">>

\* a side fact the structured source provides
sGivenFact ==
  <<"F", "a", "x", ":", " ", "1">>

\* the fields the structured source of a generated result may provide
GivenFields == {"name", "email", "phone", "title", "address"}

\* the structured fields of a result: those of given set, the others empty
Structured(given, facts, otherKey) ==
  [k \in InfoFields \cup {otherKey} |->
     IF k = otherKey THEN facts ELSE IF k \in given THEN sGiven ELSE <<>>]

\* a recognized text with a title, an email address, a website and a phone number
sCardText == JoinWith(<<sLineTitle, sLineEmail, sLineTel>>, <<"\n">>)

RawTexts == {<<>>, sCardText, sIsolationText}

\* the result objects: the structured fields under structuredInfo, under
\* structured_data or on the result itself, the raw text under raw_text or text
UploadResults ==
  {[k \in {"filename", "success", holder, rawKey} |->
      IF k = "filename" THEN <<"f">>
      ELSE IF k = "success" THEN TRUE
      ELSE IF k = rawKey THEN raw
      ELSE Structured(given, facts, "otherInfo")] :
     holder \in {"structuredInfo", "structured_data"}, rawKey \in {"raw_text", "text"},
     raw \in RawTexts, given \in SUBSET GivenFields, facts \in {<<>>, <<sGivenFact>>}}
  \cup
  {[k \in {"filename", "success", rawKey} \cup InfoFields \cup {"other_info"} |->
      IF k = "filename" THEN <<"f">>
      ELSE IF k = "success" THEN TRUE
      ELSE IF k = rawKey THEN raw
      ELSE Structured(given, facts, "other_info")[k]] :
     rawKey \in {"raw_text", "text"},
     raw \in RawTexts, given \in SUBSET GivenFields, facts \in {<<>>, <<sGivenFact>>}}

MergeInit ==
  /\ RunInit
  /\ jsQR
  /\ ZXing
  /\ payload = <<>>
  /\ parsed = Unparsed(<<>>)
  /\ text = <<>>
  /\ info = EmptyInfo
  /\ extractedBy = "none"
  /\ result \in UploadResults
  /\ saved = NoObject

\* saveToDatabase(result), up to the call of DatabaseService.saveFileUploadData
saveToDatabase ==
  /\ saved = NoObject
  /\ LET structuredData == StructuredData(result)
     IN  IF NeedsExtraction(structuredData)
         THEN LET extractedInfo == extractTextFromRawText(structuredData.raw_text)
              IN  /\ text' = structuredData.raw_text
                  /\ info' = extractedInfo
                  /\ extractedBy' = "upload"
                  /\ saved' = FinalStructuredData(structuredData, extractedInfo)
         ELSE /\ saved' = structuredData
              /\ UNCHANGED extractVars
  /\ UNCHANGED <<runVars, camVars, batchVars, pixelVars, payload, parsed, result>>

MergeNext == saveToDatabase

MergeSpec == MergeInit /\ [][MergeNext]_vars

---------------------------------------------------------------------------
(* Properties of the merge *)

\* the elements of a sequence
Range(s) == {s[k] : k \in 1..Len(s)}

\* C18: in the record handed to the database, a field the structured source
\* provides keeps the structured source's value, whatever the extractor found
\* for it.
C18_StructuredWins ==
  saved # NoObject =>
    \A f \in InfoFields :
      StructuredData(result)[f] # <<>> => saved[f] = StructuredData(result)[f]

\* the extractor ran, and found for some field a value other than the one the
\* structured source provides
C18_Witness ==
  /\ saved # NoObject
  /\ extractedBy = "upload"
  /\ \E f \in InfoFields :
       /\ StructuredData(result)[f] # <<>>
       /\ info[f] # <<>>
       /\ info[f] # StructuredData(result)[f]
       /\ saved[f] = StructuredData(result)[f]

\* C19: in the record handed to the database, every field the structured
\* source leaves empty has the value the extractor finds in the raw text,
\* whether or not name, email or phone are provided.
C19_EmptyFieldsFallBack ==
  saved # NoObject =>
    LET structuredData == StructuredData(result)
        extractedInfo == extractTextFromRawText(structuredData.raw_text)
    IN  \A f \in InfoFields :
          (structuredData[f] = <<>> /\ extractedInfo[f] # <<>>) =>
            saved[f] = extractedInfo[f]

\* C20: the other_info of the record handed to the database has every entry
\* of the structured source's list and every entry of the extractor's list.
C20_OtherInfoAccumulates ==
  saved # NoObject =>
    LET structuredData == StructuredData(result)
        extractedInfo == extractTextFromRawText(structuredData.raw_text)
    IN  Range(structuredData.other_info) \cup Range(extractedInfo.otherInfo)
          \subseteq Range(saved.other_info)

-----------------------------------------------------------------------------
(* Properties of the enrichment of a detection result *)

\* C21: fetchURLDetails never throws, and whenever the GET of the URL fails (a
\* network error or a non-2xx status) the result it returns has success = false
\* and an error, never success = true.
C21_FailedGetIsFailure ==
  \A u \in DOMAIN urlDetails :
    urlDetails[u].get \in {"neterr", "non2xx"} =>
      ~urlDetails[u].success /\ urlDetails[u].error

\* the enrichment calls of the run, in the order they were started
EnrichCalls == SelectSeq(calls, LAMBDA c : c.dec = "enrich")

\* the URL payloads of the detection result
UrlPayloads == {j \in 1..Len(detectResult) : IsUrl(detectResult[j].data)}

\* C22: after the enrichment of a detection result the URL-details map holds
\* exactly one slot per URL payload, keyed by the payload's URL and filled by that
\* URL's own call; no enrichment call writes the slot of another call, and a
\* failing call leaves the slots of the other URLs filled with their own results.
C22_OneSlotPerUrl ==
  frontResult.from = "frontend" =>
    /\ DOMAIN urlDetails = {detectResult[j].data : j \in UrlPayloads}
    /\ Cardinality(DOMAIN urlDetails) = Cardinality(UrlPayloads)
    /\ \A u \in DOMAIN urlDetails : urlDetails[u].url = u
    /\ \A j, k \in 1..Len(EnrichCalls) :
         j # k => EnrichCalls[j].out # EnrichCalls[k].out

\* without the duplicates of the early return (C1) the slots are one per URL
C22_SlotsWithoutDuplicates ==
  (frontResult.from = "frontend" /\ C1_NoDuplicateData) =>
    /\ DOMAIN urlDetails = {detectResult[j].data : j \in UrlPayloads}
    /\ Cardinality(DOMAIN urlDetails) = Cardinality(UrlPayloads)
    /\ \A u \in DOMAIN urlDetails : urlDetails[u].url = u

-----------------------------------------------------------------------------
(* Properties of processImage *)

\* a call of the text pipeline (vision, OCR, database save) failed in this run
TextCallFailed(dec) ==
  \E k \in 1..Len(calls) : calls[k].dec = dec /\ calls[k].out = <<"failed">>

\* a collaborator of the run threw or failed: the remote decoder, the backend QR
\* fallback, the vision or OCR endpoint, the database
CollaboratorFailed ==
  \/ lastRemote.threw
  \/ lastRemote.met \in {"neterr", "non2xx"}
  \/ frontResult.from = "backend" /\ ~frontResult.success
  \/ \E dec \in {"vision", "ocr", "save"} : TextCallFailed(dec)

C23_WitnessRemote ==
  /\ pc = "idle"
  /\ lastRemote.met \in {"neterr", "non2xx"}
  /\ frontResult.from = "backend"
  /\ ~frontResult.success

\* the run waits for a collaborator that never answers: a fetch, a database call
\* or a page load that stays pending (canvas.toBlob always calls back, so the wait
\* for the blob of detectWithGoQRAPI is not one of them)
CollaboratorSilent ==
  /\ net = "silent"
  /\ ~(pc \in {"t1remote", "t2remote"} /\ rpc = "blob")

\* C28: every capture that sets isProcessing to true sets it back to false on every
\* path, provided each collaborator call returns or throws; and while
\* isProcessing is true the capture button starts no second processImage.
C28_ProcessingEnds == isProcessing ~> (~isProcessing \/ CollaboratorSilent)

\* the capture button starts a run only while isProcessing is false
C28_NoSecondRun ==
  [][(pc = "idle" /\ pc' \in {"captureBlob", "captureBlobText"}) => ~isProcessing]_vars

-----------------------------------------------------------------------------
(* increaseContrast as a step, on small frames *)

\* the largest number of pixels of a frame
MaxPixels == 2

\* the pixels of the frames, as R, G, B, A: five greys and two colours
Pixels ==
  {<<0, 0, 0, 255>>, <<100, 100, 100, 255>>, <<128, 128, 128, 255>>,
   <<129, 129, 129, 255>>, <<255, 255, 255, 255>>, <<0, 100, 129, 7>>,
   <<255, 131, 43, 255>>}

\* the RGBA data of n pixels
RECURSIVE PixelData(_)
PixelData(n) ==
  IF n = 0 THEN {<<>>}
  ELSE LET shorter == PixelData(n - 1)
       IN  {p \o rest : p \in Pixels, rest \in shorter}

\* the frames ctx.getImageData can hand over
FrameSizes == {s \in (1..MaxPixels) \X (1..MaxPixels) : s[1] * s[2] <= MaxPixels}

Frames ==
  UNION {{[width |-> s[1], height |-> s[2], data |-> d] : d \in PixelData(s[1] * s[2])} :
           s \in FrameSizes}

\* the store of the number twice / 2 into a Uint8ClampedArray: clamped to 0..255
\* and rounded to the nearest integer, a half to the even one
ToUint8Clamp(twice) ==
  LET floor == twice \div 2
  IN  IF twice <= 0 THEN 0
      ELSE IF twice >= 510 THEN 255
      ELSE IF twice % 2 = 0 THEN floor
      ELSE IF floor % 2 = 0 THEN floor
      ELSE floor + 1

\* (v - 128) * factor + 128 with factor = 1.5, stored into the new data array
ContrastChannel(v) == ToUint8Clamp(3 * (v - 128) + 256)

\* increaseContrast(imageData): a new ImageData of the same size; every colour
\* channel is moved away from 128, alpha is copied
increaseContrast(imageData) ==
  [width |-> imageData.width,
   height |-> imageData.height,
   data |-> [i \in 1..Len(imageData.data) |->
               IF i % 4 = 0 THEN imageData.data[i]
               ELSE ContrastChannel(imageData.data[i])]]

ContrastInit ==
  /\ RunInit
  /\ jsQR
  /\ ZXing
  /\ payload = <<>>
  /\ parsed = Unparsed(<<>>)
  /\ UploadIdle

\* blobToImageData: the frame of the captured image
getImageData ==
  /\ frame = NoFrame
  /\ frame' \in Frames
  /\ UNCHANGED <<runVars, camVars, batchVars, payload, parsed, extractVars, mergeVars,
                 enhanced>>

\* preprocessImage, method 1: the contrast transform of the frame
contrastStep ==
  /\ frame # NoFrame
  /\ enhanced = NoFrame
  /\ enhanced' = increaseContrast(frame)
  /\ UNCHANGED <<runVars, camVars, batchVars, payload, parsed, extractVars, mergeVars,
                 frame>>

ContrastNext == getImageData \/ contrastStep

ContrastSpec == ContrastInit /\ [][ContrastNext]_vars

\* the colour channel values of a frame, its smallest and its largest
ChannelValues(f) == {f.data[i] : i \in {k \in 1..Len(f.data) : k % 4 # 0}}
MinValue(f) == CHOOSE v \in ChannelValues(f) : \A w \in ChannelValues(f) : v <= w
MaxValue(f) == CHOOSE v \in ChannelValues(f) : \A w \in ChannelValues(f) : v >= w

\* v rescaled from lo..hi to 0..255
Stretch(v, lo, hi) == ToUint8Clamp((2 * (v - lo) * 255) \div (hi - lo))

\* C24: the contrast transform returns its input unchanged for a flat image (all
\* pixel values equal), and otherwise rescales each channel by the smallest and
\* the largest pixel value of the frame; width and height stay as they are.
C24_ContrastStretch ==
  enhanced # NoFrame =>
    /\ enhanced.width = frame.width
    /\ enhanced.height = frame.height
    /\ IF MinValue(frame) = MaxValue(frame)
       THEN enhanced = frame
       ELSE \A i \in 1..Len(frame.data) :
              i % 4 # 0 =>
                enhanced.data[i] = Stretch(frame.data[i], MinValue(frame), MaxValue(frame))

\* what the transform does keep: the size of the frame and its alpha channel
C24_SizeAndAlphaKept ==
  enhanced # NoFrame =>
    /\ enhanced.width = frame.width
    /\ enhanced.height = frame.height
    /\ Len(enhanced.data) = Len(frame.data)
    /\ \A i \in 1..Len(frame.data) : i % 4 = 0 => enhanced.data[i] = frame.data[i]

-----------------------------------------------------------------------------
(* The two extractors side by side *)

\* C25: the capture flow and the upload flow extract identically: for every
\* recognized text extractTextFromRawText and extractTextInfoEnhanced return the
\* same record.
C25_ExtractorsAgree ==
  /\ extractedBy = "upload" => info = extractTextInfoEnhanced(text)
  /\ extractedBy = "scan" => info = extractTextFromRawText(text)

-----------------------------------------------------------------------------
(* The batch upload of the upload view *)

\* the largest number of files in the upload view
MaxFiles == 2

FileNames == {"a.jpg", "b.png"}

\* const maxSize of validateFile: 10MB
maxSize == 10 * 1024 * 1024

allowedTypes == {"image/jpeg", "image/jpg", "image/png", "image/gif", "image/webp"}

\* the files a user can drop: an image of just the allowed size, one that is one
\* byte too large, and a document
DroppedFiles ==
  {[name |-> n, size |-> maxSize, type |-> "image/png"] : n \in FileNames}
  \cup {[name |-> n, size |-> maxSize + 1, type |-> "image/png"] : n \in FileNames}
  \cup {[name |-> n, size |-> maxSize, type |-> "application/pdf"] : n \in FileNames}

\* validateFile(file): the error message, or "null"
validateFile(file) ==
  IF file.size > maxSize THEN "File size must be less than 10MB"
  ELSE IF file.type \notin allowedTypes
  THEN "Only image files (JPEG, PNG, GIF, WebP) are allowed"
  ELSE "null"

\* the entry handleFiles pushes for a file
UploadedFile(id, file) ==
  [id |-> id, file |-> file,
   status |-> IF validateFile(file) = "null" THEN "pending" ELSE "error",
   result |-> NoObject,
   error |-> validateFile(file)]

\* the variables no step of the upload view changes
nonBatchVars == <<runVars, camVars, pixelVars, payload, parsed, extractVars, mergeVars>>

\* handleFiles(files): every file of the list is validated and appended
handleFiles(files) ==
  /\ Len(uploadedFiles) + Len(files) <= MaxFiles
  /\ uploadedFiles' =
       uploadedFiles \o [i \in 1..Len(files) |->
                           UploadedFile(Len(uploadedFiles) + i, files[i])]
  /\ UNCHANGED <<nonBatchVars, isUploading, bpc, pendingFiles, qrResults, atStart,
                 saves, batchOutcome>>

\* uploadedFiles.filter(file => file.status === 'pending'), as the ids
PendingIds(files) ==
  LET pending == SelectSeq(files, LAMBDA f : f.status = "pending")
  IN  [i \in 1..Len(pending) |-> pending[i].id]

\* the Process All Files button: uploadAllFilesBatch up to the await of
\* detectQRCodesInFiles
uploadAllFilesBatch ==
  /\ bpc = "idle"
  /\ ~isUploading
  /\ PendingIds(uploadedFiles) # <<>>
  /\ pendingFiles' = PendingIds(uploadedFiles)
  /\ isUploading' = TRUE
  /\ bpc' = "detect"
  /\ qrResults' = {}
  /\ atStart' = uploadedFiles
  /\ saves' = <<>>
  /\ batchOutcome' = "none"
  /\ UNCHANGED <<nonBatchVars, uploadedFiles>>

\* the names of the files of the run
SentNames ==
  {atStart[i].file.name : i \in {k \in 1..Len(atStart) : atStart[k].id \in
                                    {pendingFiles[j] : j \in 1..Len(pendingFiles)}}}

\* detectQRCodesInFiles resolves (it catches the failure of every file); the batch
\* request is sent and the abort timer is started
detectQRCodesInFiles ==
  /\ bpc = "detect"
  /\ qrResults' \in SUBSET SentNames
  /\ bpc' = "fetch"
  /\ UNCHANGED <<nonBatchVars, uploadedFiles, isUploading, pendingFiles, atStart,
                 saves, batchOutcome>>

\* the catch and the finally block: every file that is pending gets the error
FailRun(message, outcome) ==
  /\ uploadedFiles' =
       [i \in 1..Len(uploadedFiles) |->
          IF uploadedFiles[i].status = "pending"
          THEN [uploadedFiles[i] EXCEPT !.status = "error", !.error = message]
          ELSE uploadedFiles[i]]
  /\ isUploading' = FALSE
  /\ bpc' = "idle"
  /\ batchOutcome' = outcome
  /\ UNCHANGED saves

\* the fetch of /batch-ocr settles: rejected, aborted by the 2 minute timer, a
\* non-2xx response, or a 2xx response
batchFetchSettles ==
  /\ bpc = "fetch"
  /\ \E met \in {"neterr", "abort", "non2xx", "ok"} :
       IF met = "ok"
       THEN /\ bpc' = "json"
            /\ UNCHANGED <<uploadedFiles, isUploading, saves, batchOutcome>>
       ELSE IF met = "abort"
       THEN FailRun("Upload timed out. Please try with smaller images or fewer files.",
                    "aborted")
       ELSE FailRun("Batch upload failed", "failed")
  /\ UNCHANGED <<nonBatchVars, pendingFiles, qrResults, atStart>>

\* the entries of batchResult.results
FileResults ==
  {[filename |-> n, success |-> s, error |-> IF s THEN "null" ELSE "OCR failed"] :
     n \in FileNames, s \in BOOLEAN}

\* the bodies /batch-ocr can answer with
BatchBodies ==
  {[shape |-> "invalid", success |-> FALSE, results |-> <<>>],
   [shape |-> "object", success |-> FALSE, results |-> <<>>]}
  \cup {[shape |-> "object", success |-> TRUE, results |-> l] :
          l \in SeqsUpTo(FileResults, MaxFiles)}

\* batchResult.results.find(r => r.filename === name): its index, or 0
FindResult(rs, name) ==
  LET hits == {k \in 1..Len(rs) : rs[k].filename = name}
  IN  IF hits = {} THEN 0 ELSE CHOOSE k \in hits : \A j \in hits : k <= j

\* the result merged with the QR data of the file name
MergedResult(r, qr) ==
  [filename |-> r.filename, success |-> r.success, has_qr_codes |-> r.filename \in qr]

RECURSIVE MapFiles(_, _, _, _)
\* the updater of setUploadedFiles over prev: the files it returns and the files
\* saveToDatabase was called for, processedFiles being the names saved so far
MapFiles(prev, rs, qr, processedFiles) ==
  IF prev = <<>> THEN [files |-> <<>>, saves |-> <<>>]
  ELSE LET file == Head(prev)
           k == FindResult(rs, file.file.name)
       IN  IF k = 0
           THEN LET rest == MapFiles(Tail(prev), rs, qr, processedFiles)
                IN  [files |-> <<file>> \o rest.files, saves |-> rest.saves]
           ELSE LET r == rs[k]
                    save == r.success /\ file.file.name \notin processedFiles
                    rest == MapFiles(Tail(prev), rs, qr,
                                     IF save THEN processedFiles \cup {file.file.name}
                                     ELSE processedFiles)
                    updated ==
                      [file EXCEPT
                         !.status = IF r.success THEN "completed" ELSE "error",
                         !.result = IF r.success THEN MergedResult(r, qr) ELSE NoObject,
                         !.error = IF r.success THEN "null" ELSE r.error]
                IN  [files |-> <<updated>> \o rest.files,
                     saves |-> (IF save THEN <<file.id>> ELSE <<>>) \o rest.saves]

\* response.json() settles and the answer is read
batchJsonSettles ==
  /\ bpc = "json"
  /\ \E body \in BatchBodies :
       IF body.shape = "object" /\ body.success
       THEN LET mapped == MapFiles(uploadedFiles, body.results, qrResults, {})
            IN  /\ uploadedFiles' = mapped.files
                /\ saves' = mapped.saves
                /\ isUploading' = FALSE
                /\ bpc' = "idle"
                /\ batchOutcome' = "success"
       ELSE FailRun("Batch processing failed", "failed")
  /\ UNCHANGED <<nonBatchVars, pendingFiles, qrResults, atStart>>

BatchInit ==
  /\ RunInit
  /\ jsQR
  /\ ZXing
  /\ payload = <<>>
  /\ parsed = Unparsed(<<>>)
  /\ UploadIdle

BatchNext ==
  \/ \E files \in SeqsUpTo(DroppedFiles, MaxFiles) \ {<<>>} : handleFiles(files)
  \/ uploadAllFilesBatch
  \/ detectQRCodesInFiles
  \/ batchFetchSettles
  \/ batchJsonSettles

BatchSpec == BatchInit /\ [][BatchNext]_vars

\* the ids of the files the run sent
SentIds == {pendingFiles[j] : j \in 1..Len(pendingFiles)}

\* the number of saveToDatabase calls of the run for the file id
SaveCount(id) == Cardinality({k \in 1..Len(saves) : saves[k] = id})

\* C26: in one batch-upload run every uploaded file whose batch result is
\* successful is saved to the database exactly once: no file is saved twice and
\* no successfully processed file, not even one that shares its file name with
\* another file of the list, is left unsaved.
C26_SavedExactlyOnce ==
  batchOutcome = "success" =>
    \A i \in 1..Len(uploadedFiles) :
      LET f == uploadedFiles[i]
      IN  /\ SaveCount(f.id) <= 1
          /\ (f.id \in SentIds /\ f.status = "completed") => SaveCount(f.id) = 1

\* what does hold: no file is saved twice, and no file name is saved twice
C26_NoNameSavedTwice ==
  /\ \A i \in 1..Len(uploadedFiles) : SaveCount(uploadedFiles[i].id) <= 1
  /\ \A j, k \in 1..Len(saves) :
       j # k => uploadedFiles[saves[j]].file.name # uploadedFiles[saves[k]].file.name

\* C29: a batch-upload run sends only files whose status is 'pending' (a file
\* rejected by validation is never sent) and, whatever its outcome, leaves the
\* status, result and error of every file that was not pending when the run
\* started unchanged.
C29_OnlyPendingTouched ==
  \A i \in 1..Len(atStart) :
    /\ atStart[i].id \in SentIds =>
         /\ atStart[i].status = "pending"
         /\ validateFile(atStart[i].file) = "null"
    /\ atStart[i].status # "pending" =>
         /\ uploadedFiles[i].status = atStart[i].status
         /\ uploadedFiles[i].result = atStart[i].result
         /\ uploadedFiles[i].error = atStart[i].error

\* the first half of C29 alone
C29_OnlyPendingSent ==
  \A i \in 1..Len(atStart) :
    atStart[i].id \in SentIds =>
      /\ atStart[i].status = "pending"
      /\ validateFile(atStart[i].file) = "null"

\* C30: when a batch-upload run finishes, by success, by a failed or unsuccessful
\* response or by the abort timer, isUploading is false again and no file that was
\* sent in the run still has status 'pending'.
C30_RunLeavesNoPending ==
  (bpc = "idle" /\ batchOutcome # "none") =>
    /\ ~isUploading
    /\ \A i \in 1..Len(uploadedFiles) :
         uploadedFiles[i].id \in SentIds => uploadedFiles[i].status # "pending"

\* the first half of C30, and its second half for the runs that fail
C30_FailedRunLeavesNoPending ==
  (bpc = "idle" /\ batchOutcome # "none") =>
    /\ ~isUploading
    /\ batchOutcome # "success" =>
         \A i \in 1..Len(uploadedFiles) :
           uploadedFiles[i].id \in SentIds => uploadedFiles[i].status = "error"

-----------------------------------------------------------------------------
(* The camera of the scan view *)

\* the largest number of streams with running tracks at one time
MaxStreams == 2

\* the largest number of start steps (timers and getUserMedia calls) pending at
\* one time
MaxPending == 2

\* the variables no step of the camera changes
nonCamVars == <<libVars, isInitialized, isProcessing, pc, detectVars, net, enrichVars,
                frontResult, calls, prepInvoked, stopRequested, payload, parsed,
                extractVars, mergeVars, batchVars, pixelVars>>

\* the effect on [isScanning, scanMode] after a render that changed them: the
\* cleanup of the last run (stopCamera), then startCamera up to the await of
\* getUserMedia when the view scans in QR or text mode
cameraEffect ==
  /\ effectDeps # <<isScanning, scanMode>>
  /\ stopCamera
  /\ effectDeps' = <<isScanning, scanMode>>
  /\ IF isScanning /\ scanMode \in {"qr", "text"}
     THEN starting < MaxPending /\ starting' = starting + 1
     ELSE UNCHANGED starting
  /\ UNCHANGED <<nonCamVars, uiVars, timers>>

\* startCamera: getUserMedia settles; a stream is put into streamRef, whatever
\* the ref held, and a rejection only sets the status text
getUserMediaSettles ==
  /\ starting > 0
  /\ starting' = starting - 1
  /\ \E ok \in BOOLEAN :
       IF ok
       THEN /\ Cardinality(live) < MaxStreams
            /\ LET stream == CHOOSE s \in 1..MaxStreams : s \notin live
               IN  /\ streamRef' = stream
                   /\ live' = live \cup {stream}
       ELSE UNCHANGED <<streamRef, live>>
  /\ UNCHANGED <<nonCamVars, uiVars, timers, effectDeps>>

\* the Reset button of the QR and of the text scanner: stopCamera, then a timer of
\* 100 ms for startCamera
resetCamera ==
  /\ isScanning
  /\ scanMode \in {"qr", "text"}
  /\ starting + timers < MaxPending
  /\ stopCamera
  /\ timers' = timers + 1
  /\ UNCHANGED <<nonCamVars, uiVars, starting, effectDeps>>

\* the timer of the Reset button fires: startCamera up to the await of
\* getUserMedia
resetTimerFires ==
  /\ timers > 0
  /\ timers' = timers - 1
  /\ starting' = starting + 1
  /\ UNCHANGED <<nonCamVars, uiVars, streamRef, live, effectDeps>>

CameraInit ==
  /\ RunInit
  /\ jsQR
  /\ ZXing
  /\ payload = <<>>
  /\ parsed = Unparsed(<<>>)
  /\ UploadIdle

CameraNext ==
  \/ \E mode \in ScanModes : startScan(mode)
  \/ stopScan
  \/ cameraEffect
  \/ getUserMediaSettles
  \/ resetCamera
  \/ resetTimerFires

CameraSpec == CameraInit /\ [][CameraNext]_vars

\* no start step is pending: the effect has run, no timer and no getUserMedia call
\* is outstanding
NoStartPending ==
  /\ effectDeps = <<isScanning, scanMode>>
  /\ timers = 0
  /\ starting = 0

\* C27: no interleaving of startCamera, the Reset button and stopScan or the
\* effect cleanup leaves a live camera stream behind once scanning is stopped:
\* whenever isScanning is false and no start step is pending, streamRef holds no
\* stream with running tracks.
C27_NoStreamAfterStop ==
  (~isScanning /\ NoStartPending) => streamRef \notin live

=============================================================================
